---- MODULE Spec2Model ----
(***************************************************************************)
(* Model of the Telemetry Acquisition & Fallback Engine (YezdiBleManager,  *)
(* src/unnamed/part_002): the connect / disconnect state machine with its  *)
(* asynchronous continuations, the frame decoder parseIncomingData, the    *)
(* fallback sources (location watcher, accelerometer listener, synthetic   *)
(* timer), the operational log, initialize(), and the single cache slot    *)
(* shared with YezdiStorageManager (src/unnamed/part_003); device scanning *)
(* (startScanning, stopScanning, the adapter-state listener and the 30 s   *)
(* timer), the custom settings and their persistence, and the two callers  *)
(* in the user interface that the claims involve: the dashboard screen's   *)
(* record (src/screens/DashboardScreen.js) and the speedometer's trip      *)
(* reset (src/unnamed/part_001); and the location tracking of              *)
(* YezdiSensorManager (src/utils/SensorManager.js).                        *)
(*                                                                         *)
(* Encoding of JavaScript values:                                          *)
(*   null            -> Null (a record) for objects, 0 for handles         *)
(*   '--'            -> Unknown (-1)                                       *)
(*   odometer string -> the integer it spells ('00000' and '0' are 0)      *)
(*   toFixed(1)      -> the value in tenths (an integer)                   *)
(*   a subscription, timer or device handle -> the number of the           *)
(*     connectToDevice call (session) that created it, 0 when none did.    *)
(* Log entries carry level and message kind; `arg' is the number the       *)
(* message text interpolates and `sess' the call that wrote the entry.     *)
(***************************************************************************)
EXTENDS Integers, Sequences, FiniteSets, TLC

VARIABLES
    \* fields of YezdiBleManager
    connectedDevice, dataCallback, connectionCallback, debugLogs, mockData,
    sensorFallbackEnabled, mockDataEnabled, cachedDataEnabled, lastKnownData,
    mockDataInterval, gpsSubscription, accelerometerSubscription,
    \* platform: radio links, notification subscriptions, watchers, timers, storage
    linkOpen, monitors, gpsPc, gpsHasPrev, gpsLast, accelListeners, liveTimers, cacheSlot,
    \* asynchronous calls in progress
    connPc, discPc, discDev, discSeen,
    \* what the consumer and the caller have observed
    dataOut, connOut, closedAt,
    \* the frame under test of the decoder specification
    frame,
    \* the clock (Date.now(), milliseconds), when the storage slot was last
    \* written, the calls made on the storage manager's cache methods with what
    \* they returned, and the progress of initialize()
    now, cachedAt, cacheCalls, initPc,
    \* scanning: the isScanning field, the adapter's power state, the state
    \* listeners startScanning registered, the startScanning calls that passed a
    \* device callback, the listener of the running radio scan (0: no scan), the
    \* pending 30 s timers, and what the caller of the scan methods has observed
    isScanning, adapterState, stateSubs, scanCb, radioScan, scanTimers, scanTrace,
    \* the customSettings field, what durable storage holds under
    \* 'yezdi_custom_settings', the values written to characteristics by the
    \* generic key strategy, the updateCustomSettings calls and restarts so far,
    \* and the alerts Speedometer.resetTrip has shown
    customSettings, settingsStore, linkWrites, settingsCalls, tripAlerts,
    \* fields of YezdiSensorManager (lastLocation: whether lastLocation and
    \* lastLocationTime are set; locationSubscription: the progress of
    \* startGPSTracking, "fresh" while the watcher has delivered nothing yet)
    \* and the updates its location callback has received
    isInitialized, locationSubscription, lastLocation, locationOut

vars == <<connectedDevice, dataCallback, connectionCallback, debugLogs, mockData,
          sensorFallbackEnabled, mockDataEnabled, cachedDataEnabled, lastKnownData,
          mockDataInterval, gpsSubscription, accelerometerSubscription,
          linkOpen, monitors, gpsPc, gpsHasPrev, gpsLast, accelListeners, liveTimers, cacheSlot,
          connPc, discPc, discDev, discSeen, dataOut, connOut, closedAt, frame,
          now, cachedAt, cacheCalls, initPc,
          isScanning, adapterState, stateSubs, scanCb, radioScan, scanTimers, scanTrace,
          customSettings, settingsStore, linkWrites, settingsCalls, tripAlerts,
          isInitialized, locationSubscription, lastLocation, locationOut>>

\* ------------------------------------------------------------------ bounds
MaxSessions == 1
MaxDisconnects == 1
MaxEvents == 1
MaxParses == 2
MaxLen == 12
MaxClock == 7320001
MaxCacheCalls == 3
MaxAppends == 502
MaxScans == 2
MaxScanTrace == 5

\* --------------------------------------------------------------- constants
LogCapacity == 500
Unknown == -1
Null == [null |-> TRUE]
\* Date.now() when the engine is constructed: positive, counted from then
ClockStart == 1
\* 60 * 60 * 1000
CacheTtlMs == 3600000

Sessions == 1..MaxSessions
ScanCalls == 1..MaxScans
DiscCalls == 1..MaxDisconnects

Max(a, b) == IF a >= b THEN a ELSE b
Min(a, b) == IF a <= b THEN a ELSE b

\* ---------------------------------------------------------------- the log
Entry(level, msg, arg, sess) == [level |-> level, msg |-> msg, arg |-> arg, sess |-> sess]

\* a log that drops the newest entry on overflow
LogPushKeepsOldest(logs, e) ==
    LET l == Append(logs, e)
    IN IF Len(l) > LogCapacity THEN SubSeq(l, 1, LogCapacity) ELSE l

\* this.log(level, message): push, then keep the last 500
LogPush(logs, e) ==
    LET l == Append(logs, e)
    IN IF Len(l) > LogCapacity THEN SubSeq(l, Len(l) - LogCapacity + 1, Len(l)) ELSE l

RECURSIVE LogAll(_, _)
LogAll(logs, es) ==
    IF es = << >> THEN logs ELSE LogAll(LogPush(logs, Head(es)), Tail(es))

\* ------------------------------------------------------- the frame decoder
\* A frame is the byte string Buffer.from(base64Data, 'base64') yields; byte k
\* of the buffer is frame[k + 1].
\* sample bytes per offset of a frame; offsets past 10 are padding
ByteSamples(k) ==
    CASE k = 0 -> {45}
      [] k = 1 -> {0, 3, 7}
      [] k = 2 -> {2}
      [] k = 3 -> {88}
      [] k = 4 -> {60}
      [] k = 5 -> {0, 5}
      [] k = 6 -> {5, 10}
      [] k = 7 -> {0, 1}
      [] k = 8 -> {0}
      [] k = 9 -> {0}
      [] k = 10 -> {100}
      [] OTHER -> {7}

RECURSIVE BuffersOfLen(_)
BuffersOfLen(n) ==
    IF n = 0 THEN {<< >>}
    ELSE {Append(b, x) : b \in BuffersOfLen(n - 1), x \in ByteSamples(n - 1)}

Buffers == UNION {BuffersOfLen(n) : n \in 0..MaxLen}

\* Math.random() in thousandths
RandSamples == {0, 999}
Rands == [a : RandSamples, b : RandSamples, c : RandSamples, d : RandSamples]

\* buffer.readUInt8 / readUInt16BE / readUInt32BE: a read past the end throws
InRange(buf, off, n) == off + n <= Len(buf)
ReadUInt8(buf, off) == buf[off + 1]
ReadUInt16BE(buf, off) == buf[off + 1] * 256 + buf[off + 2]
ReadUInt32BE(buf, off) ==
    ((buf[off + 1] * 256 + buf[off + 2]) * 256 + buf[off + 3]) * 256 + buf[off + 4]

\* x || d on a number
JsOr(x, d) == IF x = 0 THEN d ELSE x
Bit(x, k) == (x \div (2 ^ k)) % 2 = 1
RidingModes == <<"Road", "Rain", "Off-Road">>

\* strategy 1 of parseIncomingData (buffer.length >= 10)
FullDecode(buf) ==
    [speed |-> JsOr(ReadUInt8(buf, 0), 0),
     gear |-> JsOr(ReadUInt8(buf, 1), 1),
     rpm |-> JsOr(ReadUInt16BE(buf, 2) * 10, 0),
     fuel |-> JsOr(ReadUInt8(buf, 4), 0),
     ridingMode |-> RidingModes[(ReadUInt8(buf, 5) % 3) + 1],
     highBeam |-> Bit(ReadUInt8(buf, 6), 0),
     hazard |-> Bit(ReadUInt8(buf, 6), 1),
     engineCheck |-> Bit(ReadUInt8(buf, 6), 2),
     battery |-> Bit(ReadUInt8(buf, 6), 3),
     odometer |-> ReadUInt32BE(buf, 7)]

\* strategy 2 (4 <= buffer.length < 10)
MinimalDecode(buf) ==
    [speed |-> JsOr(ReadUInt8(buf, 0), 0),
     gear |-> Max(JsOr(ReadUInt8(buf, 1), 1), 1),
     rpm |-> JsOr(ReadUInt16BE(buf, 2) * 50, 0),
     fuel |-> 50,
     ridingMode |-> "Road",
     highBeam |-> FALSE,
     hazard |-> FALSE,
     engineCheck |-> FALSE,
     battery |-> TRUE,
     odometer |-> 0]

\* strategy 3 (buffer.length < 4)
BasicDecode(buf) ==
    [speed |-> IF Len(buf) > 0 THEN ReadUInt8(buf, 0) ELSE 0,
     gear |-> 1,
     rpm |-> 0,
     fuel |-> 0,
     ridingMode |-> "Road",
     highBeam |-> FALSE,
     hazard |-> FALSE,
     engineCheck |-> FALSE,
     battery |-> FALSE,
     odometer |-> Unknown]

\* the reads of the selected strategy that fall outside the buffer
DecodeThrows(buf) ==
    IF Len(buf) >= 10
    THEN ~(InRange(buf, 0, 1) /\ InRange(buf, 1, 1) /\ InRange(buf, 2, 2)
           /\ InRange(buf, 4, 1) /\ InRange(buf, 5, 1) /\ InRange(buf, 6, 1)
           /\ InRange(buf, 7, 4))
    ELSE IF Len(buf) >= 4
    THEN ~(InRange(buf, 0, 1) /\ InRange(buf, 1, 1) /\ InRange(buf, 2, 2))
    ELSE FALSE

DecodeFields(buf) ==
    IF Len(buf) >= 10 THEN FullDecode(buf)
    ELSE IF Len(buf) >= 4 THEN MinimalDecode(buf)
    ELSE BasicDecode(buf)

\* the four fields no strategy decodes: ((Math.random() * w) + lo).toFixed(1)
TripFill(r) ==
    [tripA |-> 2 * r.a + 1000,
     tripB |-> 5 * r.b + 2000,
     afe |-> ((r.c + 5) \div 10) + 150,
     bfe |-> ((8 * r.d + 50) \div 100) + 140]

\* the random draw leaks into a decoded field
WithTripsJitter(data, r) ==
    LET t == TripFill(r)
    IN [speed |-> data.speed + (r.a % 2), gear |-> data.gear, rpm |-> data.rpm,
        fuel |-> data.fuel, ridingMode |-> data.ridingMode, highBeam |-> data.highBeam,
        hazard |-> data.hazard, engineCheck |-> data.engineCheck,
        battery |-> data.battery, odometer |-> data.odometer,
        tripA |-> t.tripA, tripB |-> t.tripB, afe |-> t.afe, bfe |-> t.bfe]

WithTrips(data, r) ==
    LET t == TripFill(r)
    IN [speed |-> data.speed, gear |-> data.gear, rpm |-> data.rpm, fuel |-> data.fuel,
        ridingMode |-> data.ridingMode, highBeam |-> data.highBeam,
        hazard |-> data.hazard, engineCheck |-> data.engineCheck,
        battery |-> data.battery, odometer |-> data.odometer,
        tripA |-> t.tripA, tripB |-> t.tripB, afe |-> t.afe, bfe |-> t.bfe]

\* a catch block that falls back to zeroes instead of unknowns
FallbackDataZeroes ==
    [speed |-> 0, gear |-> 1, rpm |-> 0, fuel |-> 0,
     ridingMode |-> "Road", highBeam |-> FALSE, hazard |-> FALSE,
     engineCheck |-> FALSE, battery |-> FALSE, odometer |-> 0,
     tripA |-> 0, tripB |-> 0, afe |-> 0, bfe |-> 0]

\* the record of the catch block
FallbackData ==
    [speed |-> Unknown, gear |-> Unknown, rpm |-> 0, fuel |-> 0,
     ridingMode |-> "Road", highBeam |-> FALSE, hazard |-> FALSE,
     engineCheck |-> FALSE, battery |-> FALSE, odometer |-> Unknown,
     tripA |-> Unknown, tripB |-> Unknown, afe |-> Unknown, bfe |-> Unknown]

\* the log entries parseIncomingData writes for a buffer
ParseLogs(buf, sess) ==
    <<Entry("INFO", "ReceivedData", Len(buf), sess)>>
    \o (IF Len(buf) >= 10 THEN << >>
        ELSE IF Len(buf) >= 4 THEN <<Entry("WARN", "ShortPacket", Len(buf), sess)>>
        ELSE <<Entry("WARN", "VeryShortPacket", Len(buf), sess)>>)
    \o (IF DecodeThrows(buf) THEN <<Entry("ERROR", "ParsingFailed", 0, sess)>>
        ELSE <<Entry("INFO", "ParsedData", 0, sess)>>)

\* the place of the next callback invocation among all those made so far
NextCall == Len(dataOut) + Len(connOut) + 1

\* this.dataCallback && this.dataCallback(rec)
Deliver(out, cb, src, sess, rec) ==
    IF cb = 0 THEN out
    ELSE Append(out, [src |-> src, sess |-> sess, to |-> cb, rec |-> rec, at |-> NextCall])

\* cacheData(data): AsyncStorage.setItem('yezdi_cached_data', ...) when enabled
CacheWrite(slot, enabled, data) == IF enabled THEN data ELSE slot

\* cacheData's catch block: log('ERROR', 'Failed to cache data: ...') once the
\* write has been rejected; a failure that leaves no trace
CacheFailureSilent(enabled, ok, sess) == << >>

\* cacheData's catch block
CacheFailureLogs(enabled, ok, sess) ==
    IF enabled /\ ~ok THEN <<Entry("ERROR", "CacheFailed", 0, sess)>> ELSE << >>

\* parseIncomingData(base64Data), called for a frame of the link of session sess;
\* ok is how the write that cacheData starts settles. cacheData is not awaited:
\* the record is handed to the callback before the write settles, and the
\* settling of the write is taken together with the call that started it.
ParseIncomingDataStoring(buf, sess, r, ok) ==
    /\ debugLogs' = LogAll(debugLogs,
           ParseLogs(buf, sess)
           \o (IF DecodeThrows(buf) THEN << >>
               ELSE CacheFailureLogs(cachedDataEnabled, ok, sess)))
    /\ IF DecodeThrows(buf)
       THEN /\ dataOut' = Deliver(dataOut, dataCallback, "ble", sess, FallbackData)
            /\ UNCHANGED <<lastKnownData, cacheSlot, cachedAt>>
       ELSE LET data == WithTrips(DecodeFields(buf), r)
            IN /\ lastKnownData' = data
               /\ cacheSlot' = CacheWrite(cacheSlot, cachedDataEnabled /\ ok, data)
               /\ cachedAt' = CacheWrite(cachedAt, cachedDataEnabled /\ ok, now)
               /\ dataOut' = Deliver(dataOut, dataCallback, "ble", sess, data)

\* parseIncomingData with a storage that accepts the write
ParseIncomingData(buf, sess, r) == ParseIncomingDataStoring(buf, sess, r, TRUE)

\* ------------------------------------------------------ state of the engine
\* owner of a timer that no connectToDevice call created
AppOwner == 99

\* this.mockData of the constructor; speed, rpm and fuel in thousandths
InitMockData ==
    [speed |-> 0, gear |-> 1, rpm |-> 0, fuel |-> 0, ridingMode |-> "Road",
     highBeam |-> FALSE, hazard |-> FALSE, engineCheck |-> FALSE, battery |-> TRUE,
     odometer |-> 0, tripA |-> 0, tripB |-> 0, afe |-> 0, bfe |-> 0]

\* AsyncStorage.getItem of a key never set yields null: no text
NoItem == {}

\* this.customSettings of the constructor
DefaultSettings ==
    [serviceUUID |-> "", charUUID |-> "", authKey |-> "YEZDI_AUTH_DEFAULT"]

\* nothing was ever stored under 'yezdi_cached_data'
EmptyStore ==
    /\ cacheSlot = Null
    /\ cachedAt = 0

\* the constructor (but for the two callbacks and mockData), nothing in flight
InitEngine ==
    /\ connectedDevice = 0
    /\ debugLogs = << >>
    /\ sensorFallbackEnabled = TRUE
    /\ mockDataEnabled = FALSE
    /\ cachedDataEnabled = TRUE
    /\ lastKnownData = Null
    /\ mockDataInterval = 0
    /\ gpsSubscription = 0
    /\ accelerometerSubscription = 0
    /\ linkOpen = {}
    /\ monitors = [s \in Sessions |-> "off"]
    /\ gpsPc = [s \in Sessions |-> "none"]
    /\ gpsHasPrev = [s \in Sessions |-> FALSE]
    /\ gpsLast = [s \in Sessions |-> <<0, 0>>]
    /\ accelListeners = {}
    /\ liveTimers = {}
    /\ connPc = [s \in Sessions |-> "idle"]
    /\ discPc = [c \in DiscCalls |-> "idle"]
    /\ discDev = [c \in DiscCalls |-> 0]
    /\ discSeen = [c \in DiscCalls |-> [s \in Sessions |-> "idle"]]
    /\ dataOut = << >>
    /\ connOut = << >>
    /\ closedAt = [s \in Sessions |-> "open"]
    /\ now = ClockStart
    /\ cacheCalls = << >>
    /\ initPc = "idle"
    /\ isScanning = FALSE
    /\ adapterState = "PoweredOn"
    /\ stateSubs = [k \in ScanCalls |-> "none"]
    /\ scanCb = {}
    /\ radioScan = 0
    /\ scanTimers = {}
    /\ scanTrace = << >>
    /\ customSettings = DefaultSettings
    /\ settingsStore = NoItem
    /\ linkWrites = << >>
    /\ settingsCalls = << >>
    /\ tripAlerts = << >>
    /\ isInitialized = FALSE
    /\ locationSubscription = "none"
    /\ lastLocation = FALSE
    /\ locationOut = << >>

\* the instance right after construction
Init ==
    /\ InitEngine
    /\ mockData = InitMockData
    /\ EmptyStore
    /\ dataCallback = 0
    /\ connectionCallback = 0
    /\ frame = << >>

mgrFlags == <<sensorFallbackEnabled, mockDataEnabled, cachedDataEnabled>>
callbacks == <<dataCallback, connectionCallback>>
handles == <<mockDataInterval, gpsSubscription, accelerometerSubscription>>
sensors == <<gpsPc, gpsHasPrev, gpsLast, accelListeners, liveTimers>>
radio == <<linkOpen, monitors>>
decoded == <<lastKnownData, cacheSlot, cachedAt>>
scanVars == <<isScanning, adapterState, stateSubs, scanCb, radioScan, scanTimers, scanTrace>>
settingsVars == <<customSettings, settingsStore, linkWrites, settingsCalls>>
trackingVars == <<isInitialized, locationSubscription, lastLocation, locationOut>>
appVars == <<settingsVars, tripAlerts, trackingVars>>
storeVars == <<now, cacheCalls, initPc, scanVars, appVars>>
discVars == <<discPc, discDev, discSeen, closedAt>>

CountAll(logs, msg) ==
    Cardinality({i \in DOMAIN logs : logs[i].msg = msg})

\* this.connectionCallback && this.connectionCallback(connected, device)
Report(out, cb, connected, sess) ==
    IF cb = 0 THEN out
    ELSE Append(out, [connected |-> connected, sess |-> sess, to |-> cb, at |-> NextCall])

\* the radio link of session s goes down: its notification subscription gets an error
CloseLink(mon, s) ==
    IF s \in Sessions /\ mon[s] = "on" THEN [mon EXCEPT ![s] = "error"] ELSE mon

\* ---------------------------------------------------------- registration
Consumers == {1}

SetDataCallback(c) ==
    /\ dataCallback # c
    /\ dataCallback' = c
    /\ UNCHANGED <<connectedDevice, connectionCallback, debugLogs, mockData, mgrFlags,
                   decoded, handles, radio, sensors, connPc, discVars, dataOut,
                   connOut, frame, storeVars>>

SetConnectionCallback(c) ==
    /\ connectionCallback # c
    /\ connectionCallback' = c
    /\ UNCHANGED <<connectedDevice, dataCallback, debugLogs, mockData, mgrFlags,
                   decoded, handles, radio, sensors, connPc, discVars, dataOut,
                   connOut, frame, storeVars>>

\* -------------------------------------------------------- custom settings
\* { ...a, ...b } keeping what a has
SpreadKeepsFirst(a, b) == a @@ b

\* { ...a, ...b }: the keys of both, those of b with b's values
Spread(a, b) == b @@ a

\* JSON.stringify of an object of strings (the text, up to the order of its
\* members) and JSON.parse of such a text
JsonStringify(o) == {<<k, o[k]>> : k \in DOMAIN o}
JsonParse(text) ==
    [k \in {m[1] : m \in text} |-> (CHOOSE m \in text : m[1] = k)[2]]

\* arguments of updateCustomSettings: one key, two keys, and the three keys the
\* settings screen passes
SettingsSamples ==
    { [authKey |-> "KEY_A"],
      [serviceUUID |-> "S1", charUUID |-> "C1"],
      [serviceUUID |-> "", charUUID |-> "C2", authKey |-> "KEY_B"] }

MaxUpdates == 2
MaxRestarts == 1
Updates == {i \in DOMAIN settingsCalls : settingsCalls[i].op = "update"}
Restarts == {i \in DOMAIN settingsCalls : settingsCalls[i].op = "restart"}
\* loadCachedSettings ended in its catch block: a read of storage was rejected
ReadFailed == [op |-> "readFailed", arg |-> << >>]
ReadFailures == {i \in DOMAIN settingsCalls : settingsCalls[i] = ReadFailed}

\* updateCustomSettings(settings)
UpdateCustomSettings(settings) ==
    /\ Cardinality(Updates) < MaxUpdates
    /\ customSettings' = Spread(customSettings, settings)
    /\ settingsStore' = JsonStringify(customSettings')
    /\ debugLogs' = LogPush(debugLogs, Entry("INFO", "UpdatedCustomSettings", 0, 0))
    /\ settingsCalls' = Append(settingsCalls, [op |-> "update", arg |-> settings])
    /\ UNCHANGED <<connectedDevice, callbacks, mockData, mgrFlags, decoded, handles,
                   radio, sensors, connPc, discVars, dataOut, connOut, frame, now,
                   cacheCalls, initPc, scanVars, linkWrites, tripAlerts,
                   trackingVars>>

\* ------------------------------------------------------- connectToDevice
\* a platform call on the device of session s can succeed only while its link is up
DeviceUp(s) == s \in linkOpen

\* connectToDevice(device) is called: runs up to await manager.connectToDevice
ConnectToDevice(s) ==
    /\ connPc[s] = "idle"
    /\ IF s = 1 THEN TRUE ELSE connPc[s - 1] # "idle"
    /\ debugLogs' = LogPush(debugLogs, Entry("INFO", "ConnectAttempt", 0, s))
    /\ connPc' = [connPc EXCEPT ![s] = "radio"]
    /\ UNCHANGED <<connectedDevice, callbacks, mockData, mgrFlags, decoded, handles,
                   radio, sensors, discVars, dataOut, connOut, frame, storeVars>>

\* the radio-level connect resolves; discoverServices runs up to its first await
ConnectRadioOk(s) ==
    /\ connPc[s] = "radio"
    /\ linkOpen' = linkOpen \cup {s}
    /\ connectedDevice' = s
    /\ debugLogs' = LogAll(debugLogs, <<Entry("INFO", "Connected", 0, s),
                                        Entry("INFO", "DiscoveringServices", 0, s)>>)
    /\ connPc' = [connPc EXCEPT ![s] = "discover"]
    /\ UNCHANGED <<callbacks, mockData, mgrFlags, decoded, handles, monitors,
                   sensors, discVars, dataOut, connOut, frame, storeVars>>

\* the radio-level connect rejects: the catch block of connectToDevice
ConnectRadioFail(s) ==
    /\ connPc[s] = "radio"
    /\ debugLogs' = LogPush(debugLogs, Entry("ERROR", "ConnectionFailed", 0, s))
    /\ connOut' = Report(connOut, connectionCallback, FALSE, 0)
    /\ connPc' = [connPc EXCEPT ![s] = "rejected"]
    /\ UNCHANGED <<connectedDevice, callbacks, mockData, mgrFlags, decoded, handles,
                   radio, sensors, discVars, dataOut, frame, storeVars>>

\* a loop that throws when every method has failed
AuthLoopRejects(i, s) ==
    IF i >= 3
    THEN [logs |-> (IF i = 3 THEN <<Entry("INFO", "AuthAttempt", i, s),
                                    Entry("INFO", "BondingManualPairing", 0, s),
                                    Entry("WARN", "AuthFailed", i, s)>>
                    ELSE << >>)
                   \o <<Entry("WARN", "AllAuthFailed", 0, s)>>,
          pc |-> "rejected"]
    ELSE [logs |-> <<Entry("INFO", "AuthAttempt", i, s)>>,
          pc |-> IF i = 1 THEN "auth1" ELSE "auth2"]

\* the for loop of attemptAuthentication from iteration i up to its next await
\* (bondingAuthentication throws without awaiting) or to the end of the loop
RECURSIVE AuthLoop(_, _)
AuthLoop(i, s) ==
    IF i > 3 THEN [logs |-> <<Entry("WARN", "AllAuthFailed", 0, s)>>, pc |-> "monitor"]
    ELSE IF i = 3
    THEN LET rest == AuthLoop(i + 1, s)
         IN [logs |-> <<Entry("INFO", "AuthAttempt", i, s),
                        Entry("INFO", "BondingManualPairing", 0, s),
                        Entry("WARN", "AuthFailed", i, s)>> \o rest.logs,
             pc |-> rest.pc]
    ELSE [logs |-> <<Entry("INFO", "AuthAttempt", i, s)>>,
          pc |-> IF i = 1 THEN "auth1" ELSE "auth2"]

\* a loop without the return after a success
AuthResumeNoReturn(i, ok, s) ==
    LET rest == AuthLoop(i + 1, s)
    IN [logs |-> <<Entry(IF ok THEN "INFO" ELSE "WARN",
                         IF ok THEN "AuthSuccess" ELSE "AuthFailed", i, s)>> \o rest.logs,
        pc |-> rest.pc]

\* the loop resumes after method i settled
AuthResume(i, ok, s) ==
    IF ok
    THEN [logs |-> <<Entry("INFO", "AuthSuccess", i, s)>>, pc |-> "monitor"]
    ELSE LET rest == AuthLoop(i + 1, s)
         IN [logs |-> <<Entry("WARN", "AuthFailed", i, s)>> \o rest.logs, pc |-> rest.pc]

\* setupDataMonitoring up to its first await, once the chain has returned
EnterMonitoring(r, s) ==
    IF r.pc = "monitor"
    THEN r.logs \o <<Entry("INFO", "SettingUpMonitoring", 0, s)>>
    ELSE r.logs

\* discoverServices settles (its own catch absorbs a failure), then
\* attemptAuthentication starts
DiscoverServices(s, ok) ==
    /\ connPc[s] = "discover"
    /\ ok => DeviceUp(s)
    /\ LET r == AuthLoop(1, s)
       IN /\ debugLogs' = LogAll(debugLogs,
                 (IF ok THEN <<Entry("INFO", "FoundService", 0, s),
                               Entry("INFO", "Characteristic", 0, s)>>
                  ELSE <<Entry("ERROR", "ServiceDiscoveryFailed", 0, s)>>)
                 \o EnterMonitoring(r, s))
          /\ connPc' = [connPc EXCEPT ![s] = r.pc]
    /\ UNCHANGED <<connectedDevice, callbacks, mockData, mgrFlags, decoded, handles,
                   radio, sensors, discVars, dataOut, connOut, frame, storeVars>>

\* Buffer.from(text).toString('base64')
Base64(text) == <<"base64", text>>

\* what genericKeyAuthentication writes to a writable characteristic
AuthPayload(settings, s) == [sess |-> s, value |-> Base64(settings.authKey)]

\* genericKeyAuthentication settles; ok: a writable characteristic was written
GenericKeyAuthentication(s, ok) ==
    /\ connPc[s] = "auth1"
    /\ ok => DeviceUp(s)
    /\ LET r == AuthResume(1, ok, s)
       IN /\ debugLogs' = LogAll(debugLogs,
                 (IF ok THEN <<Entry("INFO", "WroteAuthKey", 0, s)>> ELSE << >>)
                 \o EnterMonitoring(r, s))
          /\ connPc' = [connPc EXCEPT ![s] = r.pc]
    /\ linkWrites' = IF ok THEN Append(linkWrites, AuthPayload(customSettings, s))
                     ELSE linkWrites
    /\ UNCHANGED <<connectedDevice, callbacks, mockData, mgrFlags, decoded, handles,
                   radio, sensors, discVars, dataOut, connOut, frame, now, cacheCalls,
                   initPc, scanVars, customSettings, settingsStore, settingsCalls,
                   tripAlerts,
                   trackingVars>>

\* challengeResponseAuth settles (Crypto.digestStringAsync resolves or rejects)
ChallengeResponseAuth(s, ok) ==
    /\ connPc[s] = "auth2"
    /\ LET r == AuthResume(2, ok, s)
       IN /\ debugLogs' = LogAll(debugLogs,
                 (IF ok THEN <<Entry("INFO", "ChallengeResponseAttempted", 0, s)>>
                  ELSE << >>)
                 \o EnterMonitoring(r, s))
          /\ connPc' = [connPc EXCEPT ![s] = r.pc]
    /\ UNCHANGED <<connectedDevice, callbacks, mockData, mgrFlags, decoded, handles,
                   radio, sensors, discVars, dataOut, connOut, frame, storeVars>>

\* startMockDataSimulation(): clear the interval held, then set a new one
StartMockDataSimulation(timers, handle, owner) ==
    [timers |-> (timers \ {handle}) \cup {owner}, handle |-> owner]

\* setupDataMonitoring settles (its catch absorbs a failure); connectToDevice then
\* reports the connection and runs startDataUpdates up to the first await of
\* startGPSFallback, and resolves
SetupDataMonitoring(s, ok) ==
    /\ connPc[s] = "monitor"
    /\ ok => DeviceUp(s)
    /\ debugLogs' = LogPush(debugLogs,
           IF ok THEN Entry("INFO", "SubscribingNotifications", 0, s)
           ELSE Entry("ERROR", "MonitoringSetupFailed", 0, s))
    /\ monitors' = IF ok THEN [monitors EXCEPT ![s] = "on"] ELSE monitors
    /\ connOut' = Report(connOut, connectionCallback, TRUE, s)
    /\ IF mockDataEnabled
       THEN LET m == StartMockDataSimulation(liveTimers, mockDataInterval, s)
            IN /\ liveTimers' = m.timers
               /\ mockDataInterval' = m.handle
               /\ UNCHANGED <<gpsPc, accelListeners, accelerometerSubscription>>
       ELSE IF sensorFallbackEnabled
       THEN /\ gpsPc' = [gpsPc EXCEPT ![s] = "permission"]
            /\ accelListeners' = accelListeners \cup {s}
            /\ accelerometerSubscription' = s
            /\ UNCHANGED <<liveTimers, mockDataInterval>>
       ELSE UNCHANGED <<gpsPc, accelListeners, accelerometerSubscription,
                        liveTimers, mockDataInterval>>
    /\ connPc' = [connPc EXCEPT ![s] = "resolved"]
    /\ UNCHANGED <<connectedDevice, callbacks, mockData, mgrFlags, decoded,
                   gpsSubscription, gpsHasPrev, gpsLast, linkOpen, discVars, dataOut, frame, storeVars>>

\* ------------------------------------------------------- startGPSFallback
\* Location.getForegroundPermissionsAsync settles
GpsPermission(s, granted) ==
    /\ gpsPc[s] = "permission"
    /\ IF granted
       THEN /\ gpsPc' = [gpsPc EXCEPT ![s] = "watch"]
            /\ UNCHANGED debugLogs
       ELSE /\ gpsPc' = [gpsPc EXCEPT ![s] = "off"]
            /\ debugLogs' = LogPush(debugLogs, Entry("WARN", "GpsNoPermission", 0, s))
    /\ UNCHANGED <<connectedDevice, callbacks, mockData, mgrFlags, decoded, handles,
                   radio, gpsHasPrev, gpsLast, accelListeners, liveTimers, connPc, discVars,
                   dataOut, connOut, frame, storeVars>>

\* Location.watchPositionAsync settles: the handle is stored only now
GpsWatch(s, ok) ==
    /\ gpsPc[s] = "watch"
    /\ IF ok
       THEN /\ gpsPc' = [gpsPc EXCEPT ![s] = "active"]
            /\ gpsSubscription' = s
            /\ UNCHANGED debugLogs
       ELSE /\ gpsPc' = [gpsPc EXCEPT ![s] = "off"]
            /\ debugLogs' = LogPush(debugLogs, Entry("ERROR", "GpsSetupFailed", 0, s))
            /\ UNCHANGED gpsSubscription
    /\ UNCHANGED <<connectedDevice, callbacks, mockData, mgrFlags, decoded,
                   mockDataInterval, accelerometerSubscription, radio, gpsHasPrev, gpsLast,
                   accelListeners, liveTimers, connPc, discVars, dataOut, connOut, frame, storeVars>>

\* a fix d metres (calculateDistance) and dt milliseconds after the previous one;
\* lastLocation and lastTime are kept relative to the fix before, as gpsLast
FixDistances == {0, 17, 70}
FixIntervals == {0, 1000}

\* speed = (distance / timeDiff) * 3.6 with timeDiff = dt / 1000;
\* the test speed > 0 && speed < 200 (Infinity and NaN fail it)
GpsSpeedAccepted(d, dt) == dt > 0 /\ d * 3600 > 0 /\ d * 3600 < 200 * dt
\* Math.round(speed)
GpsSpeedRounded(d, dt) == (d * 7200 + dt) \div (2 * dt)

\* a sensor record that carries the estimate alone
SpreadSpeedAlone(last, v) == [speed |-> v]

\* { ...this.lastKnownData, speed }
SpreadSpeed(last, v) ==
    IF last = Null THEN [speed |-> v] ELSE [last EXCEPT !.speed = v]

\* the location handler of the watcher of session s
LocationFix(s, d, dt) ==
    /\ gpsPc[s] = "active"
    /\ gpsHasPrev' = [gpsHasPrev EXCEPT ![s] = TRUE]
    /\ gpsLast' = [gpsLast EXCEPT ![s] = <<d, dt>>]
    /\ IF gpsHasPrev[s] /\ GpsSpeedAccepted(d, dt)
       THEN /\ CountAll(debugLogs, "GpsSpeedEstimate") < MaxEvents
            /\ debugLogs' = LogPush(debugLogs,
                   Entry("INFO", "GpsSpeedEstimate", GpsSpeedRounded(d, dt), s))
            /\ dataOut' = Deliver(dataOut, dataCallback, "gps", s,
                                  SpreadSpeed(lastKnownData, GpsSpeedRounded(d, dt)))
       ELSE UNCHANGED <<debugLogs, dataOut>>
    /\ UNCHANGED <<connectedDevice, callbacks, mockData, mgrFlags, decoded, handles,
                   radio, gpsPc, accelListeners, liveTimers, connPc, discVars,
                   connOut, frame, storeVars>>

\* ------------------------------------------------------- the synthetic timer
\* a tick that perturbs speed whether or not it is zero
MockStepInvents(m, r) ==
    LET speed == Max(0, m.speed + (r.a - 500) * 5)
        rpm == IF m.rpm > 0 THEN Max(0, m.rpm + (r.b - 500) * 200) ELSE m.rpm
        fuel == IF m.fuel > 0 THEN Max(0, m.fuel - (r.c \div 20)) ELSE m.fuel
        gear == IF speed > 10000 /\ r.d > 980
                THEN Max(1, Min(6, m.gear + (IF r.e > 500 THEN 1 ELSE -1)))
                ELSE m.gear
    IN [m EXCEPT !.speed = speed, !.rpm = rpm, !.fuel = fuel, !.gear = gear]

\* one tick of the interval callback on mockData; r holds the five draws
MockStep(m, r) ==
    LET speed == IF m.speed > 0 THEN Max(0, m.speed + (r.a - 500) * 5) ELSE m.speed
        rpm == IF m.rpm > 0 THEN Max(0, m.rpm + (r.b - 500) * 200) ELSE m.rpm
        fuel == IF m.fuel > 0 THEN Max(0, m.fuel - (r.c \div 20)) ELSE m.fuel
        gear == IF speed > 10000 /\ r.d > 980
                THEN Max(1, Min(6, m.gear + (IF r.e > 500 THEN 1 ELSE -1)))
                ELSE m.gear
    IN [m EXCEPT !.speed = speed, !.rpm = rpm, !.fuel = fuel, !.gear = gear]

MockRands == [a : RandSamples, b : RandSamples, c : RandSamples, d : RandSamples,
              e : RandSamples]

\* the interval callback of timer t; ok is how the write that cacheData starts
\* settles
MockTickStoring(t, r, ok) ==
    /\ t \in liveTimers
    /\ dataCallback = 0 \/ Len(dataOut) < MaxEvents
    /\ mockData' = MockStep(mockData, r)
    /\ lastKnownData' = mockData'
    /\ cacheSlot' = CacheWrite(cacheSlot, cachedDataEnabled /\ ok, mockData')
    /\ cachedAt' = CacheWrite(cachedAt, cachedDataEnabled /\ ok, now)
    /\ debugLogs' = LogAll(debugLogs, CacheFailureLogs(cachedDataEnabled, ok, t))
    /\ dataOut' = Deliver(dataOut, dataCallback, "mock", t, mockData')
    /\ UNCHANGED <<connectedDevice, callbacks, mgrFlags, handles, radio, sensors,
                   connPc, discVars, connOut, frame>>

\* the interval callback with a storage that accepts the write
MockTick(t, r) ==
    /\ MockTickStoring(t, r, TRUE)
    /\ UNCHANGED storeVars

\* ------------------------------------------------------- link notifications
LinkFrames == {<<45, 3, 2, 88, 60, 0, 5, 0, 0, 0, 100>>, <<45, 3, 2, 88, 60, 0, 5, 0, 0, 0>>}
LinkRands == {[a |-> 0, b |-> 0, c |-> 0, d |-> 0]}

\* the monitor callback with a characteristic value
MonitorNotification(s, buf, r) ==
    /\ monitors[s] = "on"
    /\ s \in linkOpen
    /\ buf # << >>
    /\ CountAll(debugLogs, "ReceivedData") < MaxEvents
    /\ ParseIncomingData(buf, s, r)
    /\ UNCHANGED <<connectedDevice, callbacks, mockData, mgrFlags, handles, radio,
                   sensors, connPc, discVars, connOut, frame, storeVars>>

\* the monitor callback with an error, after the link went down
MonitorError(s) ==
    /\ monitors[s] = "error"
    /\ monitors' = [monitors EXCEPT ![s] = "off"]
    /\ debugLogs' = LogPush(debugLogs, Entry("ERROR", "MonitoringError", 0, s))
    /\ UNCHANGED <<connectedDevice, callbacks, mockData, mgrFlags, decoded, handles,
                   linkOpen, sensors, connPc, discVars, dataOut, connOut, frame, storeVars>>

\* a link loss after which the engine connects again by itself
LinkLostReconnects(s) ==
    /\ s \in linkOpen
    /\ linkOpen' = linkOpen \ {s}
    /\ monitors' = CloseLink(monitors, s)
    /\ connPc' = [connPc EXCEPT ![s] = "radio"]
    /\ UNCHANGED <<connectedDevice, callbacks, debugLogs, mockData, mgrFlags, decoded,
                   handles, sensors, discVars, dataOut, connOut, frame, storeVars>>

\* the peripheral drops the link
LinkLost(s) ==
    /\ s \in linkOpen
    /\ linkOpen' = linkOpen \ {s}
    /\ monitors' = CloseLink(monitors, s)
    /\ UNCHANGED <<connectedDevice, callbacks, debugLogs, mockData, mgrFlags, decoded,
                   handles, sensors, connPc, discVars, dataOut, connOut, frame, storeVars>>

\* ------------------------------------------------------------- disconnect
\* disconnect() resolved: the sessions begun before it was called are torn down;
\* closedAt keeps how far each had got when disconnect() was called
CloseSessions(at, seen) ==
    [s \in Sessions |-> IF at[s] = "open" /\ seen[s] # "idle" THEN seen[s] ELSE at[s]]

Closed == {s \in Sessions : closedAt[s] # "open"}

\* the statements of disconnect() after the if (this.connectedDevice) block
DisconnectCleanup ==
    /\ liveTimers' = liveTimers \ {mockDataInterval}
    /\ mockDataInterval' = 0
    /\ gpsPc' = IF gpsSubscription # 0
                THEN [gpsPc EXCEPT ![gpsSubscription] = "removed"] ELSE gpsPc
    /\ gpsSubscription' = 0
    /\ accelListeners' = accelListeners \ {accelerometerSubscription}
    /\ accelerometerSubscription' = 0
    /\ connOut' = Report(connOut, connectionCallback, FALSE, 0)

\* disconnect() is called: with a device it runs up to await cancelConnection,
\* without one it runs to its end
Disconnect(c) ==
    /\ discPc[c] = "idle"
    /\ IF c = 1 THEN TRUE ELSE discPc[c - 1] # "idle"
    /\ discSeen' = [discSeen EXCEPT ![c] = connPc]
    /\ IF connectedDevice # 0
       THEN /\ discPc' = [discPc EXCEPT ![c] = "cancel"]
            /\ discDev' = [discDev EXCEPT ![c] = connectedDevice]
            /\ UNCHANGED <<handles, gpsPc, accelListeners, liveTimers, connOut, closedAt>>
       ELSE /\ DisconnectCleanup
            /\ discPc' = [discPc EXCEPT ![c] = "done"]
            /\ closedAt' = CloseSessions(closedAt, discSeen'[c])
            /\ UNCHANGED discDev
    /\ UNCHANGED <<connectedDevice, callbacks, debugLogs, mockData, mgrFlags, decoded,
                   radio, gpsHasPrev, gpsLast, connPc, dataOut, frame, storeVars>>

\* cancelConnection settles: it rejects when the device is no longer connected;
\* disconnect() resolves either way
DisconnectSettle(c, ok) ==
    /\ discPc[c] = "cancel"
    /\ ok <=> discDev[c] \in linkOpen
    /\ IF ok
       THEN /\ linkOpen' = linkOpen \ {discDev[c]}
            /\ monitors' = CloseLink(monitors, discDev[c])
            /\ connectedDevice' = 0
            /\ debugLogs' = LogPush(debugLogs, Entry("INFO", "DeviceDisconnected", 0, 0))
            /\ DisconnectCleanup
       ELSE /\ debugLogs' = LogPush(debugLogs, Entry("ERROR", "DisconnectFailed", 0, 0))
            /\ UNCHANGED <<connectedDevice, radio, handles, gpsPc, accelListeners,
                           liveTimers, connOut>>
    /\ discPc' = [discPc EXCEPT ![c] = "done"]
    /\ closedAt' = CloseSessions(closedAt, discSeen[c])
    /\ UNCHANGED <<callbacks, mockData, mgrFlags, decoded, gpsHasPrev, gpsLast, connPc,
                   discDev, discSeen, dataOut, frame, storeVars>>

\* isConnected()
IsConnected == connectedDevice # 0

\* --------------------------------------------------------- the trip reset
MaxTripResets == 2

\* the methods of YezdiBleManager (the class ends with the fallback setters): no
\* sendTripReset among them, and none that writes a trip command to the link
Methods ==
    {"constructor", "log", "getDebugLogs", "clearDebugLogs", "initialize",
     "requestPermissions", "loadCachedSettings", "updateCustomSettings",
     "setDataCallback", "setConnectionCallback", "isYezdiDevice", "startScanning",
     "stopScanning", "connectToDevice", "discoverServices", "attemptAuthentication",
     "genericKeyAuthentication", "challengeResponseAuth", "bondingAuthentication",
     "setupDataMonitoring", "parseIncomingData", "startDataUpdates",
     "startMockDataSimulation", "setupFallbackDataUpdates", "startGPSFallback",
     "calculateDistance", "startAccelerometerFallback", "cacheData", "disconnect",
     "isConnected", "setSensorFallbackEnabled", "setMockDataEnabled",
     "setCachedDataEnabled"}

\* calling a property of the manager: a TypeError unless it is a method
CallOutcome(method) == IF method \in Methods THEN "called" ELSE "TypeError"

\* Speedometer.resetTrip(trip): await BleManager.sendTripReset(trip), an alert
\* 'Success' when that resolves and 'Error' when it throws
ResetTrip(trip) ==
    /\ Len(tripAlerts) < MaxTripResets
    /\ CallOutcome("sendTripReset") = "TypeError"
    /\ tripAlerts' = Append(tripAlerts,
           [trip |-> trip, connected |-> IsConnected, thrown |-> "TypeError",
            alert |-> "Error"])
    /\ UNCHANGED <<connectedDevice, callbacks, debugLogs, mockData, mgrFlags, decoded,
                   handles, radio, sensors, connPc, discVars, dataOut, connOut, frame,
                   now, cacheCalls, initPc, scanVars, settingsVars, trackingVars>>

\* ----------------------------------------------------- the dashboard screen
\* consumer 1 is the dashboard screen: its callbacks are handleBikeDataUpdate
\* and handleConnectionChange
Dashboard == 1

\* useState of DashboardScreen
InitBikeData ==
    [speed |-> Unknown, gear |-> Unknown, rpm |-> 0, fuel |-> 0, ridingMode |-> "Road",
     highBeam |-> FALSE, hazard |-> FALSE, engineCheck |-> FALSE, battery |-> FALSE,
     odometer |-> Unknown, tripA |-> Unknown, tripB |-> Unknown, afe |-> Unknown,
     bfe |-> Unknown, connected |-> FALSE]

\* handleBikeDataUpdate(data)
HandleBikeDataUpdate(prevData, data) ==
    Spread(Spread(prevData, data), [connected |-> TRUE])

\* handleConnectionChange(connected)
HandleConnectionChange(prevData, connected) ==
    IF ~connected
    THEN Spread(prevData,
             [connected |-> FALSE, speed |-> Unknown, gear |-> Unknown, rpm |-> 0,
              fuel |-> 0, highBeam |-> FALSE, hazard |-> FALSE, engineCheck |-> FALSE,
              battery |-> FALSE, odometer |-> Unknown, tripA |-> Unknown,
              tripB |-> Unknown, afe |-> Unknown, bfe |-> Unknown])
    ELSE prevData

\* bikeData once the first n callback invocations have been handled
RECURSIVE BikeDataAfter(_)
BikeDataAfter(n) ==
    IF n = 0 THEN InitBikeData
    ELSE LET prevData == BikeDataAfter(n - 1)
             data == {i \in DOMAIN dataOut : dataOut[i].at = n /\ dataOut[i].to = Dashboard}
             conn == {i \in DOMAIN connOut : connOut[i].at = n /\ connOut[i].to = Dashboard}
         IN IF data # {} THEN HandleBikeDataUpdate(prevData, dataOut[CHOOSE i \in data : TRUE].rec)
            ELSE IF conn # {}
            THEN HandleConnectionChange(prevData, connOut[CHOOSE i \in conn : TRUE].connected)
            ELSE prevData

\* the record the dashboard holds
BikeData == BikeDataAfter(Len(dataOut) + Len(connOut))

\* ------------------------------------------------ fallback configuration
MaxSetterCalls == 1
SetterCalls ==
    CountAll(debugLogs, "SensorFallbackSet") + CountAll(debugLogs, "MockDataSet")
    + CountAll(debugLogs, "CachedDataSet")

SetSensorFallbackEnabled(enabled) ==
    /\ SetterCalls < MaxSetterCalls
    /\ sensorFallbackEnabled' = enabled
    /\ debugLogs' = LogPush(debugLogs,
           Entry("INFO", "SensorFallbackSet", IF enabled THEN 1 ELSE 0, 0))
    /\ UNCHANGED <<connectedDevice, callbacks, mockData, mockDataEnabled,
                   cachedDataEnabled, decoded, handles, radio, sensors, connPc,
                   discVars, dataOut, connOut, frame, storeVars>>

SetMockDataEnabled(enabled) ==
    /\ SetterCalls < MaxSetterCalls
    /\ mockDataEnabled' = enabled
    /\ IF enabled
       THEN LET m == StartMockDataSimulation(liveTimers, mockDataInterval, AppOwner)
            IN /\ liveTimers' = m.timers
               /\ mockDataInterval' = m.handle
       ELSE /\ liveTimers' = liveTimers \ {mockDataInterval}
            /\ mockDataInterval' = 0
    /\ debugLogs' = LogPush(debugLogs,
           Entry("INFO", "MockDataSet", IF enabled THEN 1 ELSE 0, 0))
    /\ UNCHANGED <<connectedDevice, callbacks, mockData, sensorFallbackEnabled,
                   cachedDataEnabled, decoded, gpsSubscription,
                   accelerometerSubscription, radio, gpsPc, gpsHasPrev, gpsLast,
                   accelListeners, connPc, discVars, dataOut, connOut, frame, storeVars>>

SetCachedDataEnabled(enabled) ==
    /\ SetterCalls < MaxSetterCalls
    /\ cachedDataEnabled' = enabled
    /\ debugLogs' = LogPush(debugLogs,
           Entry("INFO", "CachedDataSet", IF enabled THEN 1 ELSE 0, 0))
    /\ UNCHANGED <<connectedDevice, callbacks, mockData, sensorFallbackEnabled,
                   mockDataEnabled, decoded, handles, radio, sensors, connPc,
                   discVars, dataOut, connOut, frame, storeVars>>

\* ---------------------------------------------------------------- scanning
\* what the scan methods leave alone
notScan == <<connectedDevice, callbacks, mockData, mgrFlags, decoded, handles, radio,
             sensors, connPc, discVars, dataOut, connOut, frame, now, cacheCalls, initPc,
             appVars>>

\* Text is a sequence of characters, so that toLowerCase and includes are computed
UpperLetters == <<"A", "B", "C", "D", "E", "F", "G", "H", "I", "J", "K", "L", "M", "N", "O", "P", "Q", "R", "S", "T", "U", "V", "W", "X", "Y", "Z">>
LowerLetters == <<"a", "b", "c", "d", "e", "f", "g", "h", "i", "j", "k", "l", "m", "n", "o", "p", "q", "r", "s", "t", "u", "v", "w", "x", "y", "z">>

LowerChar(c) ==
    IF \E i \in DOMAIN UpperLetters : UpperLetters[i] = c
    THEN LowerLetters[CHOOSE i \in DOMAIN UpperLetters : UpperLetters[i] = c]
    ELSE c

\* String.prototype.toLowerCase
ToLowerCase(text) == [i \in DOMAIN text |-> LowerChar(text[i])]

\* String.prototype.includes
Includes(text, token) ==
    \E i \in 1..(Len(text) - Len(token) + 1) : SubSeq(text, i, i + Len(token) - 1) = token

\* yezdiIndicators
YezdiIndicators ==
    { <<"y", "e", "z", "d", "i">>,
      <<"a", "d", "v", "e", "n", "t", "u", "r", "e">>,
      <<"b", "i", "k", "e">>,
      <<"m", "o", "t", "o", "r", "c", "y", "c", "l", "e">>,
      <<"m", "o", "t", "o">>,
      <<"c", "l", "a", "s", "s", "i", "c">>,
      <<"s", "c", "r", "a", "m", "b", "l", "e", "r">>,
      <<"n", "o", "r", "d", "i", "c">>,
      <<"b", "l", "e">>,
      <<"u", "a", "r", "t">> }

\* a device as the radio reports it: id is its identity in the traces, addr the
\* text of device.id, rssi is null when rssiKnown is FALSE
Device(id, name, addr, rssiKnown, rssi) ==
    [id |-> id, name |-> name, addr |-> addr, rssiKnown |-> rssiKnown, rssi |-> rssi]

\* advertising devices: a bike, a named device with a weak signal, one without a name
ScanDevices ==
    { Device(1, <<"Y", "e", "z", "d", "i">>, <<"A", "A", ":", "0", "1">>, TRUE, -60),
      Device(2, <<"T", "a", "g">>, <<"A", "A", ":", "0", "2">>, TRUE, -80),
      Device(3, << >>, <<"A", "A", ":", "0", "3">>, TRUE, -60) }

\* const isYezdi = yezdiIndicators.some(...)
HasIndicator(d) ==
    \E token \in YezdiIndicators :
        Includes(ToLowerCase(d.name), token) \/ Includes(ToLowerCase(d.addr), token)

\* const hasStrongSignal = device.rssi && device.rssi > -70: null and 0 are falsy
HasStrongSignal(d) == d.rssiKnown /\ d.rssi # 0 /\ d.rssi > -70

\* isYezdiDevice(device), as the truth value of what it returns (true, the name
\* of the device, or a falsy value)
IsYezdiDevice(d) == HasIndicator(d) \/ (HasStrongSignal(d) /\ d.name # << >>)

Seen(op, k, id) == [op |-> op, scan |-> k, id |-> id]

\* deviceCallback({id, name, rssi, isYezdi}): the descriptor handed to the caller
Found(k, d) ==
    [op |-> "found", scan |-> k, id |-> d.id, name |-> d.name, rssi |-> d.rssi,
     isYezdi |-> IsYezdiDevice(d)]

\* the state listener of startScanning call k, called with state st:
\* the radio scan it leaves running and what it logs
ListenerScan(k, st, scan) == IF st = "PoweredOn" THEN k ELSE scan
ListenerLogs(k, st) ==
    IF st = "PoweredOn" THEN << >> ELSE <<Entry("ERROR", "BluetoothState", 0, 0)>>

\* the 30 s timer of startScanning that a buggy version forgets to arm
ArmTimerNever(timers, k) == timers

\* setTimeout(() => this.stopScanning(), 30000)
ArmTimer(timers, k) == timers \cup {k}

\* startScanning(deviceCallback); withCb: a device callback was passed.
\* (manager.onStateChange does not throw, so the catch block is not reached.)
StartScanning(withCb) ==
    /\ Len(scanTrace) < MaxScanTrace
    /\ IF isScanning
       THEN /\ debugLogs' = LogPush(debugLogs, Entry("WARN", "AlreadyScanning", 0, 0))
            /\ scanTrace' = Append(scanTrace, Seen("busy", 0, 0))
            /\ UNCHANGED <<isScanning, stateSubs, scanCb, scanTimers>>
       ELSE /\ \E k \in ScanCalls :
                 /\ stateSubs[k] = "none"
                 /\ \A j \in ScanCalls : j < k => stateSubs[j] # "none"
                 /\ stateSubs' = [stateSubs EXCEPT ![k] = "pending"]
                 /\ scanCb' = IF withCb THEN scanCb \cup {k} ELSE scanCb
                 /\ scanTimers' = ArmTimer(scanTimers, k)
                 /\ scanTrace' = Append(scanTrace, Seen("start", k, 0))
            /\ isScanning' = TRUE
            /\ debugLogs' = LogPush(debugLogs, Entry("INFO", "StartingScan", 0, 0))
    /\ UNCHANGED <<adapterState, radioScan>>
    /\ UNCHANGED notScan

\* onStateChange(listener, true): the listener of call k gets the current state
StateEmit(k) ==
    /\ stateSubs[k] = "pending"
    /\ stateSubs' = [stateSubs EXCEPT ![k] = "live"]
    /\ radioScan' = ListenerScan(k, adapterState, radioScan)
    /\ debugLogs' = LogAll(debugLogs, ListenerLogs(k, adapterState))
    /\ UNCHANGED <<isScanning, adapterState, scanCb, scanTimers, scanTrace>>
    /\ UNCHANGED notScan

\* the listeners registered so far, in the order they were registered
RECURSIVE ListenersFrom(_)
ListenersFrom(k) ==
    IF k > MaxScans THEN << >>
    ELSE (IF stateSubs[k] # "none" THEN <<k>> ELSE << >>) \o ListenersFrom(k + 1)

RECURSIVE ScanAfter(_, _, _)
ScanAfter(ks, st, scan) ==
    IF ks = << >> THEN scan ELSE ScanAfter(Tail(ks), st, ListenerScan(Head(ks), st, scan))

RECURSIVE LogsAfter(_, _)
LogsAfter(ks, st) ==
    IF ks = << >> THEN << >> ELSE ListenerLogs(Head(ks), st) \o LogsAfter(Tail(ks), st)

\* the adapter changes its power state: every registered listener is called
\* (stopScanning removes none of them); powering off ends the radio scan
AdapterChange(st) ==
    /\ Len(scanTrace) < MaxScanTrace
    /\ st # adapterState
    /\ adapterState' = st
    /\ radioScan' = ScanAfter(ListenersFrom(1), st, IF st = "PoweredOn" THEN radioScan ELSE 0)
    /\ debugLogs' = LogAll(debugLogs, LogsAfter(ListenersFrom(1), st))
    /\ scanTrace' = Append(scanTrace, Seen("adapter", 0, 0))
    /\ UNCHANGED <<isScanning, stateSubs, scanCb, scanTimers>>
    /\ UNCHANGED notScan

\* the scan listener of startDeviceScan is called with (error, device)
Advertisement(d, error) ==
    /\ Len(scanTrace) < MaxScanTrace
    /\ radioScan # 0
    /\ IF error
       THEN /\ debugLogs' = LogPush(debugLogs, Entry("ERROR", "ScanError", 0, 0))
            /\ scanTrace' = Append(scanTrace, Seen("error", radioScan, d.id))
       ELSE IF d.name = << >>
       THEN /\ scanTrace' = Append(scanTrace, Seen("advert", radioScan, d.id))
            /\ UNCHANGED debugLogs
       ELSE /\ debugLogs' = LogAll(debugLogs,
                   <<Entry("INFO", "FoundDevice", d.id, 0), Entry("INFO", "DeviceCheck", d.id, 0)>>
                   \o (IF IsYezdiDevice(d) THEN <<Entry("INFO", "PotentialYezdi", d.id, 0)>>
                       ELSE << >>))
            /\ scanTrace' = Append(scanTrace,
                   IF radioScan \in scanCb THEN Found(radioScan, d)
                   ELSE Seen("advert", radioScan, d.id))
    /\ UNCHANGED <<isScanning, adapterState, stateSubs, scanCb, radioScan, scanTimers>>
    /\ UNCHANGED notScan

\* the body of stopScanning()
StopScanningBody ==
    IF isScanning
    THEN /\ radioScan' = 0
         /\ isScanning' = FALSE
         /\ debugLogs' = LogPush(debugLogs, Entry("INFO", "StoppedScan", 0, 0))
    ELSE UNCHANGED <<radioScan, isScanning, debugLogs>>

\* stopScanning(), called by the application
StopScanning ==
    /\ Len(scanTrace) < MaxScanTrace
    /\ StopScanningBody
    /\ scanTrace' = Append(scanTrace, Seen("stop", 0, 0))
    /\ UNCHANGED <<adapterState, stateSubs, scanCb, scanTimers>>
    /\ UNCHANGED notScan

\* the 30 s timer of startScanning call k fires (timers fire in the order set)
ScanTimeout(k) ==
    /\ k \in scanTimers
    /\ \A j \in scanTimers : j >= k
    /\ scanTimers' = scanTimers \ {k}
    /\ StopScanningBody
    /\ scanTrace' = Append(scanTrace, Seen("timeout", k, 0))
    /\ UNCHANGED <<adapterState, stateSubs, scanCb>>
    /\ UNCHANGED notScan

\* ------------------------------------------------------ the storage manager
\* YezdiStorageManager keeps its cache entry under the key 'yezdi_cached_data',
\* the key YezdiBleManager.cacheData writes: both share cacheSlot.
\* 59, 60 and 61 minutes
Delays == {3540000, 3600000, 3660000}

\* the clock moves on
Advance(dt) ==
    /\ now + dt <= MaxClock
    /\ now' = now + dt
    /\ UNCHANGED <<connectedDevice, callbacks, debugLogs, mockData, mgrFlags, decoded,
                   handles, radio, sensors, connPc, discVars, dataOut, connOut, frame,
                   cacheCalls, initPc, scanVars, appVars>>

\* { ...data, timestamp: Date.now() }
Stamp(data, t) == ("timestamp" :> t) @@ data

\* data && data.timestamp
HasTimestamp(v) == "timestamp" \in DOMAIN v /\ v.timestamp # 0

\* a freshness test that admits the boundary
IsRecentInclusive(t, stamp) == t - stamp <= CacheTtlMs

\* (Date.now() - data.timestamp) < (60 * 60 * 1000)
IsRecent(t, stamp) == t - stamp < CacheTtlMs

\* what getCachedData returns for the value getItem yields (null when the read fails)
CachedDataOf(slot, ok, t) ==
    IF ok /\ HasTimestamp(slot) /\ IsRecent(t, slot.timestamp) THEN slot ELSE Null

\* records a caller stores
CacheRecords == {InitMockData, [InitMockData EXCEPT !.speed = 45, !.gear = 3]}

\* saveCachedData(data): setItem either stores the stamped record or fails,
\* leaving the slot as it was
SaveCachedData(data, ok) ==
    /\ Len(cacheCalls) < MaxCacheCalls
    /\ cacheSlot' = IF ok THEN Stamp(data, now) ELSE cacheSlot
    /\ cachedAt' = IF ok THEN now ELSE cachedAt
    /\ cacheCalls' = Append(cacheCalls, [op |-> "put", rec |-> data, at |-> now, ok |-> ok])
    /\ UNCHANGED <<connectedDevice, callbacks, debugLogs, mockData, mgrFlags,
                   lastKnownData, handles, radio, sensors, connPc, discVars, dataOut,
                   connOut, frame, now, initPc, scanVars, appVars>>

\* getCachedData()
GetCachedData(ok) ==
    /\ Len(cacheCalls) < MaxCacheCalls
    /\ cacheCalls' = Append(cacheCalls, [op |-> "get", rec |-> CachedDataOf(cacheSlot, ok, now),
                                         at |-> now, ok |-> ok])
    /\ UNCHANGED <<connectedDevice, callbacks, debugLogs, mockData, mgrFlags, decoded,
                   handles, radio, sensors, connPc, discVars, dataOut, connOut, frame,
                   now, initPc, scanVars, appVars>>

\* the slot as an earlier run of the engine may have left it: empty, or a record
\* written by cacheData (before this run's clock started)
StoredByEngine == {Null, [InitMockData EXCEPT !.speed = 30]}

\* the storage manager on its own
InitCache ==
    /\ InitEngine
    /\ mockData = InitMockData
    /\ cacheSlot \in StoredByEngine
    /\ cachedAt = 0
    /\ dataCallback = 0
    /\ connectionCallback = 0
    /\ frame = << >>

NextCache ==
    \/ \E dt \in Delays : Advance(dt)
    \/ \E data \in CacheRecords, ok \in BOOLEAN : SaveCachedData(data, ok)
    \/ \E ok \in BOOLEAN : GetCachedData(ok)

SpecCache == InitCache /\ [][NextCache]_vars

\* ------------------------------------------------------------- initialize
\* initialize() is called: runs up to await requestForegroundPermissionsAsync
Initialize ==
    /\ initPc = "idle"
    /\ debugLogs' = LogPush(debugLogs, Entry("INFO", "Initializing", 0, 0))
    /\ initPc' = "location"
    /\ UNCHANGED <<connectedDevice, callbacks, mockData, mgrFlags, decoded, handles,
                   radio, sensors, connPc, discVars, dataOut, connOut, frame, now,
                   cacheCalls, scanVars, appVars>>

\* the location permission request settles; a rejection ends requestPermissions
\* in its catch block, and loadCachedSettings starts its first read
LocationPermission(outcome) ==
    /\ initPc = "location"
    /\ debugLogs' = LogAll(debugLogs,
           IF outcome = "denied" THEN <<Entry("WARN", "LocationPermissionDenied", 0, 0)>>
           ELSE IF outcome = "error" THEN <<Entry("ERROR", "PermissionRequestFailed", 0, 0)>>
           ELSE << >>)
    /\ initPc' = IF outcome = "error" THEN "loadCache" ELSE "camera"
    /\ UNCHANGED <<connectedDevice, callbacks, mockData, mgrFlags, decoded, handles,
                   radio, sensors, connPc, discVars, dataOut, connOut, frame, now,
                   cacheCalls, scanVars, appVars>>

\* the camera permission request settles
CameraPermission(outcome) ==
    /\ initPc = "camera"
    /\ debugLogs' = LogAll(debugLogs,
           IF outcome = "denied" THEN <<Entry("WARN", "CameraPermissionDenied", 0, 0),
                                        Entry("INFO", "PermissionsRequested", 0, 0)>>
           ELSE IF outcome = "error" THEN <<Entry("ERROR", "PermissionRequestFailed", 0, 0)>>
           ELSE <<Entry("INFO", "PermissionsRequested", 0, 0)>>)
    /\ initPc' = "loadCache"
    /\ UNCHANGED <<connectedDevice, callbacks, mockData, mgrFlags, decoded, handles,
                   radio, sensors, connPc, discVars, dataOut, connOut, frame, now,
                   cacheCalls, scanVars, appVars>>

\* the tail of initialize() once loadCachedSettings has returned
InitializeTail ==
    /\ IF mockDataEnabled
       THEN LET m == StartMockDataSimulation(liveTimers, mockDataInterval, AppOwner)
            IN /\ liveTimers' = m.timers
               /\ mockDataInterval' = m.handle
       ELSE UNCHANGED <<liveTimers, mockDataInterval>>
    /\ initPc' = "done"

\* loadCachedSettings: AsyncStorage.getItem('yezdi_cached_data') settles; what
\* it yields becomes lastKnownData as it is; a rejection ends loadCachedSettings
LoadCachedData(ok) ==
    /\ initPc = "loadCache"
    /\ IF ok
       THEN /\ lastKnownData' = IF cacheSlot # Null THEN cacheSlot ELSE lastKnownData
            /\ debugLogs' = LogAll(debugLogs,
                   IF cacheSlot # Null THEN <<Entry("INFO", "LoadedCachedData", 0, 0)>>
                   ELSE << >>)
            /\ initPc' = "loadSettings"
            /\ UNCHANGED <<liveTimers, mockDataInterval>>
       ELSE /\ debugLogs' = LogAll(debugLogs,
                   <<Entry("ERROR", "LoadCachedSettingsFailed", 0, 0),
                     Entry("INFO", "Initialized", 0, 0)>>)
            /\ InitializeTail
            /\ UNCHANGED lastKnownData
    /\ settingsCalls' = IF ok THEN settingsCalls ELSE Append(settingsCalls, ReadFailed)
    /\ UNCHANGED <<connectedDevice, callbacks, mockData, mgrFlags, cacheSlot, cachedAt,
                   gpsSubscription, accelerometerSubscription, radio, gpsPc, gpsHasPrev,
                   gpsLast, accelListeners, connPc, discVars, dataOut, connOut, frame,
                   now, cacheCalls, scanVars, customSettings, settingsStore, linkWrites,
                   tripAlerts,
                   trackingVars>>

\* loadCachedSettings: AsyncStorage.getItem('yezdi_custom_settings') settles
LoadCustomSettings(outcome) ==
    /\ initPc = "loadSettings"
    /\ debugLogs' = LogAll(debugLogs,
           (IF outcome = "found" THEN <<Entry("INFO", "LoadedCustomSettings", 0, 0)>>
            ELSE IF outcome = "error" THEN <<Entry("ERROR", "LoadCachedSettingsFailed", 0, 0)>>
            ELSE << >>)
           \o <<Entry("INFO", "Initialized", 0, 0)>>)
    /\ InitializeTail
    /\ outcome = "found" => settingsStore # NoItem
    /\ outcome = "none" => settingsStore = NoItem
    /\ customSettings' = IF outcome = "found"
                         THEN Spread(customSettings, JsonParse(settingsStore))
                         ELSE customSettings
    /\ settingsCalls' = IF outcome = "error" THEN Append(settingsCalls, ReadFailed)
                        ELSE settingsCalls
    /\ UNCHANGED <<connectedDevice, callbacks, mockData, mgrFlags, decoded,
                   gpsSubscription, accelerometerSubscription, radio, gpsPc, gpsHasPrev,
                   gpsLast, accelListeners, connPc, discVars, dataOut, connOut, frame,
                   now, cacheCalls, scanVars, settingsStore, linkWrites, tripAlerts,
                   trackingVars>>

InitializeSteps ==
    \/ Initialize
    \/ \E outcome \in {"granted", "denied", "error"} : LocationPermission(outcome)
    \/ \E outcome \in {"granted", "denied", "error"} : CameraPermission(outcome)
    \/ \E ok \in BOOLEAN : LoadCachedData(ok)
    \/ \E outcome \in {"found", "none", "error"} : LoadCustomSettings(outcome)

\* the application is stopped and started again: a new YezdiBleManager is
\* constructed, durable storage keeps what it holds, links, watchers and timers
\* of the old process are gone
Restart ==
    /\ Cardinality(Restarts) < MaxRestarts
    /\ settingsCalls' = Append(settingsCalls, [op |-> "restart", arg |-> << >>])
    /\ connectedDevice' = 0
    /\ dataCallback' = 0
    /\ connectionCallback' = 0
    /\ debugLogs' = << >>
    /\ customSettings' = DefaultSettings
    /\ mockData' = InitMockData
    /\ sensorFallbackEnabled' = TRUE
    /\ mockDataEnabled' = FALSE
    /\ cachedDataEnabled' = TRUE
    /\ lastKnownData' = Null
    /\ mockDataInterval' = 0
    /\ gpsSubscription' = 0
    /\ accelerometerSubscription' = 0
    /\ isScanning' = FALSE
    /\ linkOpen' = {}
    /\ monitors' = [s \in Sessions |-> "off"]
    /\ gpsPc' = [s \in Sessions |-> "none"]
    /\ gpsHasPrev' = [s \in Sessions |-> FALSE]
    /\ gpsLast' = [s \in Sessions |-> <<0, 0>>]
    /\ accelListeners' = {}
    /\ liveTimers' = {}
    /\ connPc' = [s \in Sessions |-> "idle"]
    /\ discPc' = [c \in DiscCalls |-> "idle"]
    /\ discDev' = [c \in DiscCalls |-> 0]
    /\ discSeen' = [c \in DiscCalls |-> [s \in Sessions |-> "idle"]]
    /\ closedAt' = [s \in Sessions |-> "open"]
    /\ initPc' = "idle"
    /\ stateSubs' = [k \in ScanCalls |-> "none"]
    /\ scanCb' = {}
    /\ radioScan' = 0
    /\ scanTimers' = {}
    /\ isInitialized' = FALSE
    /\ locationSubscription' = "none"
    /\ lastLocation' = FALSE
    /\ UNCHANGED <<cacheSlot, cachedAt, settingsStore, now, adapterState, frame, dataOut,
                   connOut, cacheCalls, scanTrace, linkWrites, tripAlerts, locationOut>>

\* ------------------------------------------------------ the engine at large
\* connectToDevice and its continuations
ConnectSteps ==
    \/ \E s \in Sessions : ConnectToDevice(s)
    \/ \E s \in Sessions : ConnectRadioOk(s)
    \/ \E s \in Sessions : ConnectRadioFail(s)
    \/ \E s \in Sessions, ok \in BOOLEAN : DiscoverServices(s, ok)
    \/ \E s \in Sessions, ok \in BOOLEAN : GenericKeyAuthentication(s, ok)
    \/ \E s \in Sessions, ok \in BOOLEAN : ChallengeResponseAuth(s, ok)
    \/ \E s \in Sessions, ok \in BOOLEAN : SetupDataMonitoring(s, ok)

\* disconnect and its continuation
DisconnectSteps ==
    \/ \E c \in DiscCalls : Disconnect(c)
    \/ \E c \in DiscCalls, ok \in BOOLEAN : DisconnectSettle(c, ok)

\* what the radio does
LinkSteps ==
    \/ \E s \in Sessions : MonitorError(s)
    \/ \E s \in Sessions : LinkLost(s)

\* Connection manager with the default fallback configuration: calls of
\* connectToDevice and disconnect interleaved with link and location events
Next ==
    \/ \E c \in Consumers : SetDataCallback(c)
    \/ \E c \in Consumers : SetConnectionCallback(c)
    \/ ConnectSteps
    \/ \E s \in Sessions, granted \in BOOLEAN : GpsPermission(s, granted)
    \/ \E s \in Sessions, ok \in BOOLEAN : GpsWatch(s, ok)
    \/ \E s \in Sessions, d \in FixDistances, dt \in FixIntervals : LocationFix(s, d, dt)
    \/ \E s \in Sessions, buf \in LinkFrames, r \in LinkRands : MonitorNotification(s, buf, r)
    \/ LinkSteps
    \/ DisconnectSteps

Spec == Init /\ [][Next]_vars

\* ------------------------------------------------- the connection sequence
\* setConnectionCallback changes nothing but the field, so the engine may start
\* with or without a registered consumer
InitAuth ==
    /\ InitEngine
    /\ mockData = InitMockData
    /\ EmptyStore
    /\ dataCallback = 0
    /\ connectionCallback \in {0} \cup Consumers
    /\ frame = << >>

\* connectToDevice calls, interleaved with each other and with link failures
NextAuth ==
    \/ ConnectSteps
    \/ LinkSteps

SpecAuth == InitAuth /\ [][NextAuth]_vars

\* ------------------------------------------------------------ the decoder
\* parseIncomingData applied to the frame under test
ParseFrame(r) ==
    /\ CountAll(debugLogs, "ReceivedData") < MaxParses
    /\ ParseIncomingData(frame, 0, r)
    /\ UNCHANGED <<connectedDevice, callbacks, mockData, mgrFlags, handles, radio,
                   sensors, connPc, discVars, connOut, frame, storeVars>>

\* setDataCallback changes nothing but the field
InitDecode ==
    /\ InitEngine
    /\ mockData = InitMockData
    /\ EmptyStore
    /\ dataCallback \in {0} \cup Consumers
    /\ connectionCallback = 0
    /\ frame \in Buffers

NextDecode == \E r \in Rands : ParseFrame(r)

SpecDecode == InitDecode /\ [][NextDecode]_vars

\* the decoder writing the slot the storage manager reads
CaptureFrames == LinkFrames \cup {<<45, 3, 2, 88>>}

InitCapture ==
    /\ InitEngine
    /\ mockData = InitMockData
    /\ EmptyStore
    /\ dataCallback = 0
    /\ connectionCallback = 0
    /\ frame \in CaptureFrames

NextCapture ==
    \/ \E r \in LinkRands : ParseFrame(r)
    \/ \E dt \in Delays : Advance(dt)
    \/ \E ok \in BOOLEAN : GetCachedData(ok)

SpecCapture == InitCapture /\ [][NextCapture]_vars

\* ------------------------------------------------ a start on a used store
\* the engine constructed anew over the storage an earlier run left, written
\* just before this run started or an hour before, with the telemetry consumer
\* registered
InitRestart ==
    /\ InitEngine
    /\ mockData = InitMockData
    /\ cacheSlot \in StoredByEngine
    /\ cachedAt \in {0, 0 - CacheTtlMs}
    /\ dataCallback \in Consumers
    /\ connectionCallback = 0
    /\ frame = << >>

\* the application awaits initialize() before it lets the user connect
NextRestart ==
    \/ InitializeSteps
    \/ initPc = "done" /\ ConnectSteps
    \/ \E s \in Sessions, granted \in BOOLEAN : GpsPermission(s, granted)
    \/ \E s \in Sessions, ok \in BOOLEAN : GpsWatch(s, ok)
    \/ \E s \in Sessions, d \in FixDistances, dt \in FixIntervals : LocationFix(s, d, dt)

SpecRestart == InitRestart /\ [][NextRestart]_vars

\* ------------------------------------------------------ the operational log
\* log(level, message) called a millisecond after the previous call, with the
\* number of the call as its message
Log(level) ==
    /\ now - ClockStart < MaxAppends
    /\ now' = now + 1
    /\ debugLogs' = LogPush(debugLogs, Entry(level, "Message", now' - ClockStart, 0))
    /\ UNCHANGED <<connectedDevice, callbacks, mockData, mgrFlags, decoded, handles,
                   radio, sensors, connPc, discVars, dataOut, connOut, frame,
                   cacheCalls, initPc, scanVars, appVars>>

NextLog == Log("INFO")

SpecLog == Init /\ [][NextLog]_vars

\* ------------------------------------------------ the synthetic generator
\* the tick as a function of mockData: states of the generator, in thousandths
\* (speed 0, 2, 9, 50 km/h; 0, 50, 3000 rpm; fuel 0, 0.03, 50); the
\* constructor's all-zero state is among them
MockStates ==
    {[InitMockData EXCEPT !.speed = v, !.rpm = n, !.fuel = f, !.gear = g] :
        v \in {0, 2000, 9000, 50000}, n \in {0, 50000, 3000000},
        f \in {0, 30, 50000}, g \in {1, 3, 6}}

InitMock ==
    /\ InitEngine
    /\ mockData \in MockStates
    /\ EmptyStore
    /\ dataCallback \in Consumers
    /\ connectionCallback = 0
    /\ frame = << >>

NextMock ==
    \/ \E enabled \in BOOLEAN : SetMockDataEnabled(enabled)
    \/ \E t \in Sessions \cup {AppOwner}, r \in MockRands : MockTick(t, r)

SpecMock == InitMock /\ [][NextMock]_vars

\* ------------------------------------------- the fallback configuration
NextFallback ==
    \/ \E c \in Consumers : SetDataCallback(c)
    \/ \E enabled \in BOOLEAN : SetSensorFallbackEnabled(enabled)
    \/ \E enabled \in BOOLEAN : SetMockDataEnabled(enabled)
    \/ \E enabled \in BOOLEAN : SetCachedDataEnabled(enabled)
    \/ \E t \in Sessions \cup {AppOwner}, r \in MockRands : MockTick(t, r)
    \/ ConnectSteps
    \/ DisconnectSteps

SpecFallback == Init /\ [][NextFallback]_vars

\* ---------------------------------------------- specification: scanning
\* startScanning, stopScanning, the adapter, the radio scan and the 30 s timers
NextScan ==
    \/ \E withCb \in BOOLEAN : StartScanning(withCb)
    \/ \E k \in ScanCalls : StateEmit(k)
    \/ \E st \in {"PoweredOn", "PoweredOff"} : AdapterChange(st)
    \/ \E d \in ScanDevices, error \in BOOLEAN : Advertisement(d, error)
    \/ StopScanning
    \/ \E k \in ScanCalls : ScanTimeout(k)

SpecScan == Init /\ [][NextScan]_vars

\* the application never calls stopScanning().
\* setTimeout callbacks run once their delay has elapsed (the timer of
\* startScanning is never cancelled), and so does the promise of the state query
NextScanAuto ==
    \/ \E withCb \in BOOLEAN : StartScanning(withCb)
    \/ \E k \in ScanCalls : StateEmit(k)
    \/ \E st \in {"PoweredOn", "PoweredOff"} : AdapterChange(st)
    \/ \E d \in ScanDevices, error \in BOOLEAN : Advertisement(d, error)
    \/ \E k \in ScanCalls : ScanTimeout(k)

SpecScanLive ==
    /\ Init /\ [][NextScanAuto]_vars
    /\ WF_vars(\E k \in ScanCalls : ScanTimeout(k))
    /\ WF_vars(\E k \in ScanCalls : StateEmit(k))

\* ----------------------------------------- specification: custom settings
\* the application awaits initialize() before anything else (DashboardScreen.js:
\* 64-66); it then changes settings and connects (the first connectToDevice of
\* each run, up to the key strategy), and it may be restarted
NextSettings ==
    \/ Initialize
    \/ LocationPermission("granted")
    \/ CameraPermission("granted")
    \/ \E ok \in BOOLEAN : LoadCachedData(ok)
    \/ \E outcome \in {"found", "none", "error"} : LoadCustomSettings(outcome)
    \/ initPc = "done" /\ \E settings \in SettingsSamples : UpdateCustomSettings(settings)
    \/ initPc = "done" /\ ConnectToDevice(1)
    \/ ConnectRadioOk(1)
    \/ \E ok \in BOOLEAN : DiscoverServices(1, ok)
    \/ \E ok \in BOOLEAN : GenericKeyAuthentication(1, ok)
    \/ Restart

SpecSettings == Init /\ [][NextSettings]_vars

\* --------------------------------------------- specification: trip reset
\* the rider resets a trip counter before, during and after a connectToDevice
NextTrip ==
    \/ ConnectSteps
    \/ \E trip \in {"A", "B"} : ResetTrip(trip)

SpecTrip == InitAuth /\ [][NextTrip]_vars

\* ------------------------------------------ specification: two consumers
\* the dashboard screen (1) and the connectivity screen (2) both register
\* callbacks on the one manager the application has
Screens == {1, 2}

NextHub ==
    \/ \E c \in Screens : SetDataCallback(c)
    \/ \E c \in Screens : SetConnectionCallback(c)
    \/ ConnectSteps
    \/ \E s \in Sessions, buf \in LinkFrames, r \in LinkRands : MonitorNotification(s, buf, r)
    \/ DisconnectSteps

SpecHub == Init /\ [][NextHub]_vars

\* ------------------------------------------- specification: reconnection
\* connectToDevice calls, link losses and disconnect() with a registered consumer
InitReconnect ==
    /\ InitEngine
    /\ mockData = InitMockData
    /\ EmptyStore
    /\ dataCallback = 0
    /\ connectionCallback = Dashboard
    /\ frame = << >>

\* the caller connects again only once its previous connectToDevice has returned
NoConnectInProgress == \A s \in Sessions : connPc[s] \in {"idle", "resolved", "rejected"}

\* (service discovery and the key strategy are taken to succeed: their failures
\* are absorbed and lead to the same monitoring setup)
NextReconnect ==
    \/ NoConnectInProgress /\ \E s \in Sessions : ConnectToDevice(s)
    \/ \E s \in Sessions : ConnectRadioOk(s)
    \/ \E s \in Sessions : ConnectRadioFail(s)
    \/ \E s \in Sessions : DiscoverServices(s, TRUE)
    \/ \E s \in Sessions : GenericKeyAuthentication(s, TRUE)
    \/ \E s \in Sessions, ok \in BOOLEAN : SetupDataMonitoring(s, ok)
    \/ LinkSteps
    \/ DisconnectSteps

SpecReconnect == InitReconnect /\ [][NextReconnect]_vars

\* ------------------------------------------------- a storage that may fail
\* The engine with a durable storage whose reads and writes may be rejected:
\* initialize() with either read failing, then frames and synthetic ticks whose
\* cache write fails or succeeds. cacheCalls lists the writes cacheData started.
PutAttempt(data, ok) == [op |-> "put", rec |-> data, at |-> now, ok |-> ok]

\* a frame arrives; the write that cacheData starts settles as ok
ParseFrameStoring(r, ok) ==
    /\ CountAll(debugLogs, "ReceivedData") < MaxParses
    /\ ParseIncomingDataStoring(frame, 0, r, ok)
    /\ cacheCalls' = IF cachedDataEnabled /\ ~DecodeThrows(frame)
                     THEN Append(cacheCalls,
                                 PutAttempt(WithTrips(DecodeFields(frame), r), ok))
                     ELSE cacheCalls
    /\ UNCHANGED <<connectedDevice, callbacks, mockData, mgrFlags, handles, radio,
                   sensors, connPc, discVars, connOut, frame, now, initPc, scanVars,
                   appVars>>

\* the synthetic timer fires; the write that cacheData starts settles as ok
MockTickRecorded(t, r, ok) ==
    /\ MockTickStoring(t, r, ok)
    /\ cacheCalls' = IF cachedDataEnabled
                     THEN Append(cacheCalls, PutAttempt(MockStep(mockData, r), ok))
                     ELSE cacheCalls
    /\ UNCHANGED <<now, initPc, scanVars, appVars>>

InitStorage ==
    /\ InitEngine
    /\ mockData = InitMockData
    /\ cacheSlot \in StoredByEngine
    /\ cachedAt = 0
    /\ dataCallback \in Consumers
    /\ connectionCallback = 0
    /\ frame \in CaptureFrames

\* the application awaits initialize() before anything else is called
NextStorage ==
    \/ Initialize
    \/ LocationPermission("granted")
    \/ CameraPermission("granted")
    \/ \E ok \in BOOLEAN : LoadCachedData(ok)
    \/ \E outcome \in {"found", "none", "error"} : LoadCustomSettings(outcome)
    \/ initPc = "done" /\ \E enabled \in BOOLEAN : SetMockDataEnabled(enabled)
    \/ initPc = "done" /\ \E enabled \in BOOLEAN : SetCachedDataEnabled(enabled)
    \/ initPc = "done" /\ \E r \in LinkRands, ok \in BOOLEAN : ParseFrameStoring(r, ok)
    \/ initPc = "done" /\ \E t \in liveTimers, r \in MockRands, ok \in BOOLEAN :
                              MockTickRecorded(t, r, ok)

SpecStorage == InitStorage /\ [][NextStorage]_vars

\* ------------------------------------------- specification: classification
\* devices that differ in what isYezdiDevice looks at: an indicator in the name
\* (in upper case) or in the id, a signal above, at and below -70, an RSSI of 0
\* and a missing RSSI, a missing name
ClassifyDevices ==
    ScanDevices \cup
    { Device(4, <<"Y", "E", "Z", "D", "I", "-", "A", "D", "V">>, <<"A", "A", ":", "0", "4">>, TRUE, -80),
      Device(5, <<"T", "a", "g">>, <<"A", "A", ":", "0", "5">>, TRUE, -69),
      Device(6, <<"T", "a", "g">>, <<"A", "A", ":", "0", "6">>, TRUE, -70),
      Device(7, <<"T", "a", "g">>, <<"A", "A", ":", "0", "7">>, TRUE, 0),
      Device(8, <<"T", "a", "g">>, <<"A", "A", ":", "0", "8">>, FALSE, 0),
      Device(9, <<"T", "a", "g">>, <<"U", "A", "R", "T", "-", "0", "9">>, TRUE, -80),
      Device(10, << >>, <<"U", "A", "R", "T", "-", "1", "0">>, TRUE, -80) }

\* scans with a device callback, the radio reporting devices without error
NextClassify ==
    \/ StartScanning(TRUE)
    \/ \E k \in ScanCalls : StateEmit(k)
    \/ \E d \in ClassifyDevices : Advertisement(d, FALSE)
    \/ StopScanning

SpecClassify == Init /\ [][NextClassify]_vars

\* ------------------------------------- specification: frames and sensors
\* One session with every connect step succeeding, frames of the link
\* (a frame that decodes and one that does not) and the location watcher.

\* the monitor callback of session s with a frame, up to MaxParses frames
MonitorFrame(s, buf, r) ==
    /\ monitors[s] = "on"
    /\ s \in linkOpen
    /\ buf # << >>
    /\ CountAll(debugLogs, "ReceivedData") < MaxParses
    /\ ParseIncomingData(buf, s, r)
    /\ UNCHANGED <<connectedDevice, callbacks, mockData, mgrFlags, handles, radio,
                   sensors, connPc, discVars, connOut, frame, storeVars>>

InitSensor ==
    /\ InitEngine
    /\ mockData = InitMockData
    /\ EmptyStore
    /\ dataCallback \in Consumers
    /\ connectionCallback = 0
    /\ frame = << >>

\* the first connectToDevice call of the run
NextSensor ==
    \/ ConnectToDevice(1)
    \/ ConnectRadioOk(1)
    \/ DiscoverServices(1, TRUE)
    \/ GenericKeyAuthentication(1, TRUE)
    \/ SetupDataMonitoring(1, TRUE)
    \/ GpsPermission(1, TRUE)
    \/ GpsWatch(1, TRUE)
    \/ \E d \in FixDistances, dt \in FixIntervals : LocationFix(1, d, dt)
    \/ \E buf \in LinkFrames, r \in LinkRands : MonitorFrame(1, buf, r)

SpecSensor == InitSensor /\ [][NextSensor]_vars

\* ------------------------------------------------------ the sensor manager
\* YezdiSensorManager (src/utils/SensorManager.js). A JavaScript number is kept
\* as its class and, when finite, the fraction num / den (den # 0).
MaxFixes == 3

NaN == [cls |-> "NaN", num |-> 0, den |-> 1]
Infinity == [cls |-> "Infinity", num |-> 0, den |-> 1]
Finite(num, den) == [cls |-> "finite", num |-> num, den |-> den]

\* (distance / timeDiff) * 3.6 with timeDiff = dt / 1000 and distance = d >= 0:
\* 0 / 0 is NaN, d / 0 is Infinity
EstimatedSpeed(d, dt) ==
    IF dt = 0 THEN (IF d = 0 THEN NaN ELSE Infinity) ELSE Finite(d * 3600, dt)

\* x < 0 and x > 300; every comparison with NaN is false
LessThanZero(x) ==
    x.cls = "finite" /\ ((x.num < 0 /\ x.den > 0) \/ (x.num > 0 /\ x.den < 0))
MoreThan300(x) ==
    \/ x.cls = "Infinity"
    \/ x.cls = "finite" /\ (IF x.den > 0 THEN x.num > 300 * x.den ELSE x.num < 300 * x.den)

\* if (estimatedSpeed < 0 || estimatedSpeed > 300) estimatedSpeed = 0
Validated(x) == IF LessThanZero(x) \/ MoreThan300(x) THEN Finite(0, 1) ELSE x

\* Math.round: NaN stays NaN, a finite x becomes floor(x + 0.5)
MathRound(x) ==
    IF x.cls # "finite" THEN x
    ELSE LET n == IF x.den > 0 THEN x.num ELSE 0 - x.num
             m == IF x.den > 0 THEN x.den ELSE 0 - x.den
         IN Finite((2 * n + m) \div (2 * m), 1)

\* the speed field of locationData for a fix d metres and dt milliseconds after
\* the previous one (hasLast: lastLocation and lastLocationTime are set)
LocationSpeed(hasLast, d, dt) ==
    MathRound(IF hasLast THEN Validated(EstimatedSpeed(d, dt)) ELSE Finite(0, 1))

\* metres between two fixes, and milliseconds of Date.now() between their
\* callbacks (Date.now() may repeat, and step back when the clock is set)
TrackDistances == {0, 17, 100}
TrackIntervals == {-1000, 0, 1000}

notTracking == <<connectedDevice, callbacks, debugLogs, mockData, mgrFlags, decoded,
                 handles, radio, sensors, connPc, discVars, dataOut, connOut, frame,
                 now, cacheCalls, initPc, scanVars, settingsVars, tripAlerts>>

\* SensorManager.initialize() with the permission request settling as granted or not
SensorInitialize(granted) ==
    /\ ~isInitialized
    /\ isInitialized' = granted
    /\ UNCHANGED <<locationSubscription, lastLocation, locationOut>>
    /\ UNCHANGED notTracking

\* startGPSTracking(callback), up to await Location.watchPositionAsync; it throws
\* when the manager is not initialized. The application starts tracking only
\* while it is not tracking.
StartGPSTracking ==
    /\ isInitialized
    /\ locationSubscription = "none"
    /\ locationSubscription' = "starting"
    /\ UNCHANGED <<isInitialized, lastLocation, locationOut>>
    /\ UNCHANGED notTracking

\* Location.watchPositionAsync settles
WatchPosition(ok) ==
    /\ locationSubscription = "starting"
    /\ locationSubscription' = IF ok THEN "fresh" ELSE "none"
    /\ UNCHANGED <<isInitialized, lastLocation, locationOut>>
    /\ UNCHANGED notTracking

\* the location callback of startGPSTracking, called with a fix d metres from the
\* previous one, dt milliseconds after it; first: it is the first update since
\* tracking started. moved and elapsed stand for the position and the timestamp
\* of locationData.
LocationUpdate(d, dt) ==
    /\ locationSubscription \in {"fresh", "on"}
    /\ Len(locationOut) < MaxFixes
    /\ locationOut' = Append(locationOut,
           [speed |-> LocationSpeed(lastLocation, d, dt), moved |-> d, elapsed |-> dt,
            first |-> locationSubscription = "fresh"])
    /\ lastLocation' = TRUE
    /\ locationSubscription' = "on"
    /\ UNCHANGED isInitialized
    /\ UNCHANGED notTracking

\* stopGPSTracking()
StopGPSTracking ==
    /\ locationSubscription \in {"fresh", "on"}
    /\ locationSubscription' = "none"
    /\ UNCHANGED <<isInitialized, lastLocation, locationOut>>
    /\ UNCHANGED notTracking

NextTracking ==
    \/ \E granted \in BOOLEAN : SensorInitialize(granted)
    \/ StartGPSTracking
    \/ \E ok \in BOOLEAN : WatchPosition(ok)
    \/ \E d \in TrackDistances, dt \in TrackIntervals : LocationUpdate(d, dt)
    \/ StopGPSTracking

SpecTracking == Init /\ [][NextTracking]_vars

\* =================================================================== claims
NewData == {i \in DOMAIN dataOut' : i > Len(dataOut)}
ConnectedReports(s) ==
    {i \in DOMAIN connOut : connOut[i].connected /\ connOut[i].sess = s}
\* connectToDevice has passed the radio-level connect and has not returned
PastRadio == {"discover", "auth1", "auth2", "monitor"}
FallbackStarted(s) ==
    gpsPc[s] # "none" \/ s \in accelListeners \/ s \in liveTimers

\* C1: once a disconnect() called on an established session (connectToDevice had
\* resolved) has itself resolved, no record reaches the telemetry callback from a
\* source of that session (link notification, location watcher, timer).
C1_NoDataAfterDisconnect ==
    [][\A i \in NewData :
           dataOut'[i].sess \in Sessions => closedAt[dataOut'[i].sess] # "resolved"]_vars

\* C2: a session whose connectToDevice was past the radio-level connect and still
\* in progress when disconnect() was called, and whose disconnect() has resolved,
\* never gets connected=true reported, never gets a fallback timer or sensor
\* subscription, and leaves isConnected() false.
C2_CancelledConnectStaysDown ==
    \A s \in Sessions :
        closedAt[s] \in PastRadio =>
            /\ ConnectedReports(s) = {}
            /\ ~FallbackStarted(s)
            /\ ~IsConnected

\* C3: while a link is monitored and its frames decode, no record of a fallback
\* source (location watcher, synthetic timer) reaches the telemetry callback.
Monitoring == \E s \in Sessions : monitors[s] = "on" /\ s \in linkOpen
LastLinkRecords ==
    LET idx == {i \in DOMAIN dataOut : dataOut[i].src = "ble"}
    IN {dataOut[i].rec : i \in {j \in idx : \A k \in idx : k <= j}}
DecodingCleanly ==
    LastLinkRecords # {} /\ \A rec \in LastLinkRecords : rec.speed # Unknown
C3_SingleWriter ==
    [][(Monitoring /\ DecodingCleanly) =>
           \A i \in NewData : dataOut'[i].src \notin {"gps", "mock"}]_vars

\* -------------------------------------------------------- decoder claims
LinkRecords == {dataOut[i].rec : i \in {j \in DOMAIN dataOut : dataOut[j].src = "ble"}}
Parses == CountAll(debugLogs, "ReceivedData")
BE16(hi, lo) == hi * 256 + lo

\* C4: a frame of length >= 10 always yields the full-decode record: speed = byte 0,
\* gear = byte 1, rpm = 10 x BE16(bytes 2-3), fuel = byte 4, ridingMode by byte 5
\* mod 3, the four flags = bits 0..3 of byte 6, odometer = BE32(bytes 7-10); never
\* the disconnected sentinel.
C4_FullDecode ==
    Len(frame) >= 10 =>
        \A rec \in LinkRecords :
            /\ rec.speed # Unknown
            /\ rec.speed = frame[1]
            /\ rec.gear = frame[2]
            /\ rec.rpm = 10 * BE16(frame[3], frame[4])
            /\ rec.fuel = frame[5]
            /\ rec.ridingMode = <<"Road", "Rain", "Off-Road">>[(frame[6] % 3) + 1]
            /\ rec.highBeam = ((frame[7] % 2) = 1)
            /\ rec.hazard = (((frame[7] \div 2) % 2) = 1)
            /\ rec.engineCheck = (((frame[7] \div 4) % 2) = 1)
            /\ rec.battery = (((frame[7] \div 8) % 2) = 1)
            /\ Len(frame) >= 11 =>
                   rec.odometer = BE16(frame[8], frame[9]) * 65536 + BE16(frame[10], frame[11])

DecodedPart(rec) ==
    <<rec.speed, rec.gear, rec.rpm, rec.fuel, rec.ridingMode, rec.highBeam, rec.hazard,
      rec.engineCheck, rec.battery, rec.odometer>>

C6_MinimalDecode ==
    Len(frame) \in 4..9 =>
        \A rec \in LinkRecords :
            /\ rec.speed = frame[1]
            /\ rec.gear = Max(frame[2], 1)
            /\ rec.rpm = 50 * BE16(frame[3], frame[4])
            /\ rec.fuel = 50
            /\ rec.ridingMode = "Road"
            /\ ~rec.highBeam /\ ~rec.hazard /\ ~rec.engineCheck /\ ~rec.battery
            /\ rec.odometer = Unknown

\* C7: a zero-length frame is a decode failure: every record delivered for it has
\* speed, gear, odometer, trip and economy fields unknown, the failure is logged at
\* ERROR, and neither the last-known record nor the cache slot is written.
C7_EmptyFrameIsFailure ==
    (Len(frame) = 0 /\ Parses > 0 /\ dataCallback # 0) =>
        /\ Len(dataOut) = Parses
        /\ \A rec \in LinkRecords :
               /\ rec.speed = Unknown /\ rec.gear = Unknown /\ rec.odometer = Unknown
               /\ rec.tripA = Unknown /\ rec.tripB = Unknown
               /\ rec.afe = Unknown /\ rec.bfe = Unknown
        /\ CountAll(debugLogs, "ParsingFailed") = Parses
        /\ lastKnownData = Null
        /\ cacheSlot = Null

\* C8: for a frame whose decoding raises, each parseIncomingData call delivers
\* exactly one record to a registered telemetry callback, that record is the
\* disconnected sentinel, each call appends one ERROR entry, and the call
\* completes (the last-known record and the cache slot stay untouched).
C8_DecodeErrorYieldsSentinel ==
    DecodeThrows(frame) =>
        /\ Len(dataOut) = (IF dataCallback # 0 THEN Parses ELSE 0)
        /\ \A rec \in LinkRecords :
               /\ rec.speed = Unknown /\ rec.gear = Unknown /\ rec.odometer = Unknown
               /\ rec.tripA = Unknown /\ rec.tripB = Unknown
               /\ rec.afe = Unknown /\ rec.bfe = Unknown
               /\ rec.rpm = 0 /\ rec.fuel = 0
        /\ Cardinality({i \in DOMAIN debugLogs :
               debugLogs[i].level = "ERROR" /\ debugLogs[i].msg = "ParsingFailed"}) = Parses
        /\ lastKnownData = Null
        /\ cacheSlot = Null

\* a failing frame parsed twice with a consumer registered
C8_Witness ==
    /\ DecodeThrows(frame)
    /\ dataCallback # 0
    /\ Parses = 2
    /\ Len(dataOut) = 2

\* -------------------------------------------------- authentication claims
LogOf(s, msg) == {i \in DOMAIN debugLogs : debugLogs[i].sess = s /\ debugLogs[i].msg = msg}
LogOfArg(s, msg, k) == {i \in LogOf(s, msg) : debugLogs[i].arg = k}
\* the strategy being attempted when entry i was written, given the indices
\* att of the attempt entries of the session
AttemptAt(att, i) ==
    LET before == {j \in att : j < i}
    IN IF before = {} THEN 0
       ELSE debugLogs[CHOOSE j \in before : \A k \in before : k <= j].arg

\* C9: when all three strategies have failed, connectToDevice has not rejected:
\* it sets up monitoring once, reports connected once (to a registered consumer)
\* when it resolves, and the log holds exactly three authentication-failure
\* entries, one per strategy.
C9_ExhaustedAuthStillMonitors ==
    \A s \in Sessions :
        LET failed == LogOf(s, "AuthFailed")
        IN (\A k \in 1..3 : \E i \in failed : debugLogs[i].arg = k) =>
            /\ connPc[s] \in {"monitor", "resolved"}
            /\ Cardinality(LogOf(s, "SettingUpMonitoring")) = 1
            /\ Cardinality(ConnectedReports(s)) =
                   (IF connPc[s] = "resolved" /\ connectionCallback # 0 THEN 1 ELSE 0)
            /\ Cardinality(failed) = 3
            /\ \A k \in 1..3 : Cardinality({i \in failed : debugLogs[i].arg = k}) = 1
            /\ LogOf(s, "ConnectionFailed") = {}

\* all three strategies failed, the call resolved and the consumer was told
C9_Witness ==
    \E s \in Sessions :
        /\ Cardinality(LogOf(s, "AuthFailed")) = 3
        /\ connPc[s] = "resolved"
        /\ ConnectedReports(s) # {}

\* C10: strategies are attempted in the order generic key write (1),
\* challenge-response digest (2), bonding handshake (3); strategy k is attempted
\* only after strategies 1..k-1 each failed, at most once, and none is attempted
\* after a success.
C10_AuthChainOrder ==
    \A s \in Sessions :
        LET mine == {i \in DOMAIN debugLogs : debugLogs[i].sess = s}
            att == {i \in mine : debugLogs[i].msg = "AuthAttempt"}
        IN /\ \A i \in att :
                  LET k == debugLogs[i].arg
                  IN /\ k \in 1..3
                     /\ AttemptAt(att, i) = k - 1
                     /\ \A m \in 1..(k - 1) :
                            \E j \in mine : /\ j < i
                                            /\ debugLogs[j].msg = "AuthFailed"
                                            /\ debugLogs[j].arg = m
           /\ \A i \in mine :
                  LET e == debugLogs[i]
                  IN /\ e.msg = "AuthSuccess" => \A j \in att : j < i
                     /\ e.msg = "WroteAuthKey" => AttemptAt(att, i) = 1
                     /\ e.msg = "ChallengeResponseAttempted" => AttemptAt(att, i) = 2
                     /\ e.msg = "BondingManualPairing" => AttemptAt(att, i) = 3
                     /\ e.msg \in {"AuthSuccess", "AuthFailed"} => AttemptAt(att, i) = e.arg
           /\ connPc[s] = "auth1" => AttemptAt(att, Len(debugLogs) + 1) = 1
           /\ connPc[s] = "auth2" => AttemptAt(att, Len(debugLogs) + 1) = 2

\* the first strategy failed, the second succeeded and the chain stopped there
C10_Witness ==
    \E s \in Sessions :
        /\ LogOfArg(s, "AuthFailed", 1) # {}
        /\ LogOfArg(s, "AuthSuccess", 2) # {}
        /\ connPc[s] = "resolved"


\* ------------------------------------------------------- teardown claims
NewReports == {i \in DOMAIN connOut' : i > Len(connOut)}
DownReports == {i \in NewReports : ~connOut'[i].connected}
\* disconnect() call c returns in this step
Returns(c) == discPc[c] # "done" /\ discPc'[c] = "done"

\* C11: a disconnect() that returns delivers one connected=false notification
\* to the registered connection callback if it took the engine from connected to
\* disconnected, and none otherwise (no device was connected when it was called,
\* as in every call after the first).
C11_DisconnectNotifiesOnce ==
    [][\A c \in DiscCalls :
           (Returns(c) /\ connectionCallback # 0) =>
               Cardinality(DownReports) =
                   (IF connectedDevice # 0 /\ connectedDevice' = 0 THEN 1 ELSE 0)]_vars

\* C12: when the monitor callback of the connected device reports the loss of
\* the link, no disconnect() having been called, the engine is back to idle:
\* isConnected() is false, the timer, location and accelerometer handles are
\* released, and a registered connection callback gets connected=false once.
C12_LinkLossReturnsToIdle ==
    [][\A s \in Sessions :
           (/\ monitors[s] = "error" /\ monitors'[s] = "off"
            /\ connectedDevice = s
            /\ \A c \in DiscCalls : discPc[c] = "idle")
           => /\ connectedDevice' = 0
              /\ mockDataInterval' = 0 /\ s \notin liveTimers'
              /\ gpsSubscription' = 0 /\ gpsPc'[s] # "active"
              /\ accelerometerSubscription' = 0 /\ s \notin accelListeners'
              /\ connectionCallback # 0 => Cardinality(DownReports) = 1]_vars

\* C13: when a disconnect() returns, whether cancelConnection succeeded or
\* failed, the three handles are cleared, what they referred to is cancelled,
\* and isConnected() is false.
C13_DisconnectReleasesAll ==
    [][\A c \in DiscCalls :
           Returns(c) =>
               /\ mockDataInterval' = 0 /\ mockDataInterval \notin liveTimers'
               /\ gpsSubscription' = 0
               /\ gpsSubscription # 0 => gpsPc'[gpsSubscription] = "removed"
               /\ accelerometerSubscription' = 0
               /\ accelerometerSubscription \notin accelListeners'
               /\ connectedDevice' = 0]_vars

\* the link of a connected session is down and the last record delivered came
\* from the link: the next record delivered is the first since the loss
LinkJustLost ==
    /\ \E s \in Sessions : connPc[s] = "resolved" /\ s \notin linkOpen /\ monitors[s] # "on"
    /\ \A s \in Sessions : s \notin linkOpen
    /\ dataOut # << >>
    /\ dataOut[Len(dataOut)].src = "ble"

\* C14: with the cache tier enabled and the slot written less than an hour ago,
\* the first record delivered after the link was lost equals the cached record.
C14_CachedRecordAfterLinkLoss ==
    [][(/\ cachedDataEnabled /\ cacheSlot # Null
        /\ now - cachedAt < CacheTtlMs
        /\ LinkJustLost)
       => \A i \in NewData : dataOut'[i].rec = cacheSlot]_vars


\* ------------------------------------------------------- location claims
\* the estimate (d / (dt / 1000)) * 3.6 km/h lies within [0, 300]
EstimateInSpecRange(d, dt) == dt > 0 /\ d * 3600 >= 0 /\ d * 3600 <= 300 * dt

\* C19: a fix that follows another one yields a record for the registered
\* telemetry callback if and only if the estimated speed lies within [0, 300] km/h.
C19_GpsSpeedRange ==
    [][\A s \in Sessions :
           (gpsHasPrev[s] /\ dataCallback # 0 /\ gpsLast'[s] # gpsLast[s]) =>
               ((\E i \in NewData : dataOut'[i].src = "gps")
                <=> EstimateInSpecRange(gpsLast'[s][1], gpsLast'[s][2]))]_vars

\* ------------------------------------------------------------ cache claims
\* value v holds every field of record r with r's value
Carries(v, r) == \A f \in DOMAIN r : f \in DOMAIN v /\ v[f] = r[f]
\* the successful saveCachedData calls before call i
PutsBefore(i) == {j \in 1..(i - 1) : cacheCalls[j].op = "put" /\ cacheCalls[j].ok}
LastPutBefore(i) == CHOOSE j \in PutsBefore(i) : \A k \in PutsBefore(i) : k <= j

\* C15: getCachedData (its storage read succeeding) returns the record of the
\* latest successful saveCachedData, with the timestamp of that call, if and only
\* if less than one hour has passed since; otherwise (one hour or more, a slot
\* that was never written by saveCachedData and so holds no timestamp) it
\* returns nothing. An earlier record is never returned: put overwrites.
C15_CacheTtl ==
    \A i \in DOMAIN cacheCalls :
        cacheCalls[i].op = "get" =>
            IF cacheCalls[i].ok /\ PutsBefore(i) # {}
               /\ cacheCalls[i].at - cacheCalls[LastPutBefore(i)].at < CacheTtlMs
            THEN /\ Carries(cacheCalls[i].rec, cacheCalls[LastPutBefore(i)].rec)
                 /\ cacheCalls[i].rec.timestamp = cacheCalls[LastPutBefore(i)].at
            ELSE cacheCalls[i].rec = Null

\* two different records were put one after the other and a get 59 minutes
\* after the second returned it
C15_Witness ==
    \E i, j, k \in DOMAIN cacheCalls :
        /\ i < j /\ j < k
        /\ cacheCalls[i].op = "put" /\ cacheCalls[i].ok
        /\ cacheCalls[j].op = "put" /\ cacheCalls[j].ok
        /\ cacheCalls[i].rec # cacheCalls[j].rec
        /\ cacheCalls[k].op = "get" /\ cacheCalls[k].ok
        /\ cacheCalls[k].at - cacheCalls[j].at = 3540000
        /\ Carries(cacheCalls[k].rec, cacheCalls[j].rec)

\* a call of getCachedData returns in this step
GetReturns ==
    /\ Len(cacheCalls') = Len(cacheCalls) + 1
    /\ cacheCalls'[Len(cacheCalls')].op = "get"
    /\ cacheCalls'[Len(cacheCalls')].ok

\* C16: after an accepted decode (the cache tier enabled), a getCachedData less
\* than one hour later returns the decoded record.
C16_DecodeIsCached ==
    [][(GetReturns /\ cachedDataEnabled /\ lastKnownData # Null
        /\ now - cachedAt < CacheTtlMs)
       => Carries(cacheCalls'[Len(cacheCalls')].rec, lastKnownData)]_vars

\* the record carries every field of the stored entry but speed
PopulatedFromCache(rec) ==
    /\ cacheSlot # Null
    /\ Carries(rec, [f \in DOMAIN cacheSlot \ {"speed"} |-> cacheSlot[f]])

\* C17: a record delivered to the telemetry callback one hour or more after the
\* stored entry was written does not carry that entry's fields, also when the
\* entry was loaded by initialize() from what an earlier run stored.
C17_StaleCacheNeverDelivered ==
    [][\A i \in NewData :
           (cacheSlot # Null /\ now - cachedAt >= CacheTtlMs)
               => ~PopulatedFromCache(dataOut'[i].rec)]_vars

\* ---------------------------------------------------------------- log claim
\* the number of log calls made
Appends == now - ClockStart

\* C18: after any number N of appends the log holds min(N, 500) entries, and
\* they are the last min(N, 500) entries appended, in append order.
C18_LogKeepsLast500 ==
    /\ Len(debugLogs) <= 500
    /\ Len(debugLogs) = Min(Appends, 500)
    /\ \A i \in DOMAIN debugLogs : debugLogs[i].arg = Appends - Len(debugLogs) + i

\* 501 appends: the first entry is gone and the 501st is the last one held
C18_Witness ==
    /\ Appends = 501
    /\ Len(debugLogs) = 500
    /\ debugLogs[1].arg = 2
    /\ debugLogs[500].arg = 501

\* ---------------------------------------------------------- generator claim
\* C20: on every tick of the synthetic generator a speed, rpm or fuel of 0 stays
\* 0, no field becomes negative, gear moves by at most 1, moves only when the
\* speed of the tick exceeds 10 km/h and stays within 1..6; the record emitted is
\* the state after the tick.
C20_MockWalk ==
    [][/\ mockData.speed = 0 => mockData'.speed = 0
       /\ mockData.rpm = 0 => mockData'.rpm = 0
       /\ mockData.fuel = 0 => mockData'.fuel = 0
       /\ mockData'.speed >= 0 /\ mockData'.rpm >= 0 /\ mockData'.fuel >= 0
       /\ mockData'.gear - mockData.gear \in {-1, 0, 1}
       /\ mockData'.gear # mockData.gear => mockData'.speed > 10000
       /\ mockData'.gear \in 1..6
       /\ \A i \in NewData : dataOut'[i].src = "mock" => dataOut'[i].rec = mockData']_vars

\* a tick at more than 10 km/h moved the gear (to a gear no sampled state starts
\* in) and left an rpm of zero at zero
C20_Witness ==
    \E i \in DOMAIN dataOut :
        /\ dataOut[i].src = "mock"
        /\ dataOut[i].rec.speed > 10000
        /\ dataOut[i].rec.gear \in {2, 4, 5}
        /\ dataOut[i].rec.rpm = 0

\* ------------------------------------------------------------ scan claims
Founds == {i \in DOMAIN scanTrace : scanTrace[i].op = "found"}

\* C21: during one scan started by startScanning(onFound), onFound is invoked at
\* most once per distinct device id, however many advertisements the device sends.
C21_FoundOncePerDevice ==
    \A i, j \in Founds :
        (scanTrace[i].scan = scanTrace[j].scan /\ scanTrace[i].id = scanTrace[j].id) => i = j

\* the last stopScanning() that returned with no startScanning() after it, 0 if none
LastStop ==
    LET stops == {i \in DOMAIN scanTrace :
                     /\ scanTrace[i].op = "stop"
                     /\ \A j \in DOMAIN scanTrace : j > i => scanTrace[j].op # "start"}
    IN IF stops = {} THEN 0 ELSE CHOOSE i \in stops : \A j \in stops : j <= i

\* C22: after stopScanning() returns and until the next startScanning(), no radio
\* scan is running and the device-found callback is not invoked, also when the
\* adapter reports PoweredOn only after the stop; a second stopScanning() changes
\* nothing.
C22_StopScanningIsFinal ==
    LastStop # 0 =>
        /\ radioScan = 0
        /\ ~isScanning
        /\ \A j \in Founds : j < LastStop

\* C23: every scan started by startScanning() ends on its own: with no call of
\* stopScanning(), the 30 s timer stops the radio scan and clears isScanning.
C23_ScanTimesOut == isScanning ~> (~isScanning /\ radioScan = 0)

\* a scan that reported a device was ended by its timer, stopScanning() never called
C23_Witness ==
    /\ Len(scanTrace) >= 3
    /\ \E k \in ScanCalls :
          /\ scanTrace[Len(scanTrace)] = Seen("timeout", k, 0)
          /\ \E i \in Founds : scanTrace[i].scan = k
    /\ \A i \in DOMAIN scanTrace : scanTrace[i].op # "stop"
    /\ ~isScanning
    /\ radioScan = 0

\* ----------------------------------------------------- connect-failure claim
\* the steps of connectToDevice call s that have failed
FailedSteps(s) ==
    LogOf(s, "ConnectionFailed") \cup LogOf(s, "ServiceDiscoveryFailed")
        \cup LogOf(s, "MonitoringSetupFailed")

\* C24: once the radio-level connect, the service discovery or the monitoring
\* setup of a connectToDevice call has failed, the call does not resolve and the
\* connection callback is never told connected; when the call has returned it
\* has rejected, isConnected() is false and no fallback timer or sensor
\* subscription was started.
C24_FailedStepRejects ==
    \A s \in Sessions :
        FailedSteps(s) # {} =>
            /\ connPc[s] # "resolved"
            /\ ConnectedReports(s) = {}
            /\ ~FallbackStarted(s)
            /\ connPc[s] = "rejected" => ~IsConnected

\* ------------------------------------------------------------ settings claim
SettingKeys == {"serviceUUID", "charUUID", "authKey"}

\* the value the caller has asked for under key k after the first n calls: that
\* of the last updateCustomSettings whose argument has the key, else the default
AskedFor(calls, k, n) ==
    LET ups == {i \in 1..n : calls[i].op = "update" /\ k \in DOMAIN calls[i].arg}
    IN IF ups = {} THEN DefaultSettings[k]
       ELSE calls[CHOOSE i \in ups : \A j \in ups : j <= i].arg[k]

NewAuthWrites == {i \in DOMAIN linkWrites' : i > Len(linkWrites)}

NewTripAlerts == {i \in DOMAIN tripAlerts' : i > Len(tripAlerts)}

\* C25: sendTripReset(trip), trip A or B, writes a reset command to the link
\* when a device is connected; with no device connected it fails with
\* NotConnectedError and writes nothing.
C25_TripResetWritesWhenConnected ==
    [][\A i \in NewTripAlerts :
           IF tripAlerts'[i].connected
           THEN /\ tripAlerts'[i].alert = "Success"
                /\ Len(linkWrites') = Len(linkWrites) + 1
           ELSE /\ tripAlerts'[i].thrown = "NotConnectedError"
                /\ linkWrites' = linkWrites]_vars

\* ---------------------------------------------------------- initialize claim
\* C26: initialize() fails (with a PermissionError) when the location permission
\* is denied, so it never completes as a success after a denial; it succeeds when
\* the permission is granted.
C26_DeniedPermissionFails ==
    (\E i \in DOMAIN debugLogs : debugLogs[i].msg = "LocationPermissionDenied")
        => initPc # "done"

\* ------------------------------------------------------------ fan-out claim
\* in the sequence out of deliveries, delivery j also went to every consumer that
\* had received a delivery before it (and so had subscribed before it)
FannedOut(out, j) ==
    \A i \in 1..(j - 1) :
        out[i].to # out[j].to =>
            \E m \in {j - 1, j + 1} \cap DOMAIN out :
                [out[m] EXCEPT !.at = 0] = [out[j] EXCEPT !.to = out[i].to, !.at = 0]

\* C28: when two consumers have each subscribed with setConnectionCallback (or
\* setDataCallback), every later connection-state change (or telemetry record)
\* is delivered to both of them, not only to the one that subscribed last.
C28_HubFansOut ==
    /\ \A j \in DOMAIN connOut : FannedOut(connOut, j)
    /\ \A j \in DOMAIN dataOut : FannedOut(dataOut, j)

\* ----------------------------------------------------------- dashboard claim
\* the last record the dashboard was given, Null if none
LastDelivered ==
    LET mine == {i \in DOMAIN dataOut : dataOut[i].to = Dashboard}
    IN IF mine = {} THEN Null ELSE dataOut[CHOOSE i \in mine : \A j \in mine : j <= i].rec

Sentinel(rec) ==
    /\ rec.speed = Unknown /\ rec.gear = Unknown /\ rec.odometer = Unknown
    /\ rec.tripA = Unknown /\ rec.tripB = Unknown
    /\ rec.afe = Unknown /\ rec.bfe = Unknown

\* C29: the record the dashboard holds is marked connected only while the engine
\* holds a monitored link whose last frame decoded; otherwise (after a decode
\* failure, after a not-connected report, while only a fallback source emits with
\* no device connected) it has connected = false and the unknown sentinel in its
\* speed, gear, odometer, trip and economy fields.
C29_ConnectedOnlyWhileMonitoring ==
    LET held == Monitoring /\ IsConnected /\ LastDelivered # FallbackData
    IN /\ BikeData.connected => held
       /\ ~BikeData.connected => Sentinel(BikeData)

\* -------------------------------------------------------- reconnection claim
\* C30: no automatic reconnection: a radio-level connect is issued only by a call
\* of connectToDevice (never for a call that has failed, resolved or been torn
\* down), and a link is opened only as the outcome of such a connect.
C30_NoAutoReconnect ==
    [][\A s \in Sessions :
           /\ (connPc'[s] = "radio" /\ connPc[s] # "radio") => connPc[s] = "idle"
           /\ (s \in linkOpen' /\ s \notin linkOpen) => connPc[s] = "radio"]_vars

\* a connect failed, or a link was lost or closed by disconnect() after its
\* connect, and the engine sits there with no link and no connect in progress
C30_Witness ==
    \E s \in Sessions :
        /\ s \notin linkOpen
        /\ \/ connPc[s] = "rejected" /\ LogOf(s, "ConnectionFailed") # {}
           \/ connPc[s] = "resolved" /\ LogOf(s, "MonitoringError") # {}
           \/ connPc[s] = "resolved" /\ closedAt[s] = "resolved"
        /\ \A t \in Sessions : connPc[t] # "radio"

\* -------------------------------------------------------------------- gear
Gears == 1..6

\* C31: every record delivered to the telemetry callback has gear in 1..6 or equal
\* to the unknown sentinel, whatever the bytes of the frame.
C31_GearInRange ==
    \A i \in DOMAIN dataOut :
        /\ "gear" \in DOMAIN dataOut[i].rec
        /\ dataOut[i].rec.gear \in Gears \cup {Unknown}


\* ------------------------------------------------------- storage failures
NewPuts == {i \in DOMAIN cacheCalls' : i > Len(cacheCalls)}
FailedPuts == {i \in NewPuts : ~cacheCalls'[i].ok}
NewLogs == {i \in DOMAIN debugLogs' : i > Len(debugLogs)}
ErrorLogged(msg) ==
    \E j \in NewLogs : debugLogs'[j].level = "ERROR" /\ debugLogs'[j].msg = msg

\* C32: a storage failure never interrupts the telemetry flow. A handler whose
\* cache write is rejected still hands its record to the telemetry callback, and a
\* rejected read of the cached record or of the custom settings still lets
\* initialize() run to its successful end; either failure shows as an ERROR entry
\* of the log and in no callback.
C32_StorageFailuresSwallowed ==
    [][/\ \A i \in FailedPuts :
              /\ Len(dataOut') = Len(dataOut) + 1
              /\ dataOut'[Len(dataOut')].rec = cacheCalls'[i].rec
              /\ ErrorLogged("CacheFailed")
              /\ connOut' = connOut
       /\ ReadFailures' # ReadFailures =>
              /\ initPc' = "done"
              /\ debugLogs'[Len(debugLogs')] = Entry("INFO", "Initialized", 0, 0)
              /\ ErrorLogged("LoadCachedSettingsFailed")
              /\ dataOut' = dataOut
              /\ connOut' = connOut]_vars

\* initialize() has come through a rejected read, and afterwards a record whose
\* cache write was rejected has reached the consumer
C32_Witness ==
    /\ initPc = "done"
    /\ ReadFailures # {}
    /\ \E i \in DOMAIN cacheCalls :
           /\ ~cacheCalls[i].ok
           /\ \E j \in DOMAIN dataOut : dataOut[j].rec = cacheCalls[i].rec
    /\ CountAll(debugLogs, "CacheFailed") > 0


\* ----------------------------------------------------------- tier flags
NewSensorRecords == {i \in NewData : dataOut'[i].src = "gps"}
WatcherHeld == \E s \in Sessions : gpsPc[s] \in {"watch", "active"}

\* C33: each fallback tier obeys its flag at all times. While the sensor tier is
\* disabled no location watcher and no accelerometer listener is held and no
\* sensor-derived record is emitted, also when the tier is disabled in the middle
\* of a session; while the synthetic tier is disabled no synthetic timer is
\* active; while the cached tier is disabled nothing writes the cache slot.
C33_TiersObeyFlags ==
    [][/\ ~sensorFallbackEnabled' =>
              /\ accelListeners' = {}
              /\ ~WatcherHeld'
              /\ NewSensorRecords = {}
       /\ ~mockDataEnabled' => liveTimers' = {}
       /\ ~cachedDataEnabled => cacheSlot' = cacheSlot]_vars


\* ------------------------------------------------------- classification
DeviceOf(id) == CHOOSE d \in ClassifyDevices : d.id = id

\* C34: the classification handed to onFound is true exactly when the lower-cased
\* name or id of the device contains a match token, or its RSSI exceeds -70 and
\* its name is non-empty; and classification excludes nothing: an advertisement
\* of a scan with a callback goes unreported only if the device has no name.
C34_ClassifiesWithoutExcluding ==
    \A i \in DOMAIN scanTrace :
        LET d == DeviceOf(scanTrace[i].id)
        IN /\ scanTrace[i].op = "found" =>
                  scanTrace[i].isYezdi =
                      (\/ HasIndicator(d)
                       \/ (d.rssiKnown /\ d.rssi > -70 /\ d.name # << >>))
           /\ (scanTrace[i].op = "advert" /\ scanTrace[i].scan \in scanCb) =>
                  d.name = << >>


\* ------------------------------------------------- one of each resource
Watchers == {s \in Sessions : gpsPc[s] = "active"}
AtMostOne(S) == Cardinality(S) <= 1

\* C35: whatever the sequence of connectToDevice and disconnect calls, the engine
\* holds at most one open link, one location watcher, one accelerometer listener
\* and one synthetic timer, and when a disconnect() returns none of them is left.
C35_OneOfEachAndReleased ==
    [][/\ AtMostOne(linkOpen')
       /\ AtMostOne(Watchers')
       /\ AtMostOne(accelListeners')
       /\ AtMostOne(liveTimers')
       /\ \A c \in DiscCalls :
              Returns(c) =>
                  /\ linkOpen' = {}
                  /\ Watchers' = {}
                  /\ accelListeners' = {}
                  /\ liveTimers' = {}]_vars


\* ------------------------------------------------------- the scan timer
Starts == {i \in DOMAIN scanTrace : scanTrace[i].op = "start"}
\* the startScanning call that started the scan now running
CurrentScan ==
    IF Starts = {} THEN 0
    ELSE scanTrace[CHOOSE i \in Starts : \A j \in Starts : j <= i].scan
Fired(k) == k \in scanTimers /\ k \notin scanTimers'
Busy == Len(scanTrace') = Len(scanTrace) + 1 /\ scanTrace'[Len(scanTrace')].op = "busy"

\* C36: the 30 s timer of a scan only ever ends the scan that armed it: a timer
\* that fires while a later scan is running leaves that scan running; and a
\* startScanning() during a running scan arms no timer and changes nothing of
\* the scan.
C36_TimerEndsOnlyItsOwnScan ==
    [][/\ \A k \in ScanCalls :
              (Fired(k) /\ isScanning /\ CurrentScan # k) =>
                  /\ isScanning'
                  /\ radioScan' = radioScan
       /\ Busy => UNCHANGED <<isScanning, stateSubs, scanCb, radioScan, scanTimers>>]_vars


\* ------------------------------------------------- a frame that fails
ParsingFailedNow ==
    \E j \in NewLogs : debugLogs'[j].level = "ERROR" /\ debugLogs'[j].msg = "ParsingFailed"
\* the frames decoded so far, as delivered
Decoded(out) == {i \in DOMAIN out : out[i].src = "ble" /\ ~Sentinel(out[i].rec)}
LastDecoded(out) ==
    IF Decoded(out) = {} THEN Null
    ELSE out[CHOOSE i \in Decoded(out) : \A j \in Decoded(out) : j <= i].rec
\* rec is base with its speed replaced
FromBase(rec, base) ==
    IF base = Null THEN DOMAIN rec = {"speed"}
    ELSE /\ DOMAIN rec = DOMAIN base
         /\ \A f \in DOMAIN base \ {"speed"} : rec[f] = base[f]

\* C37: a frame whose decoding fails changes nothing but the log and the consumer:
\* the last-known record and the cache slot are after it what they were before it,
\* and a sensor-derived record is built from the last frame that decoded.
C37_FailedDecodeKeepsLastKnown ==
    [][/\ ParsingFailedNow =>
              /\ lastKnownData' = lastKnownData
              /\ cacheSlot' = cacheSlot
              /\ cachedAt' = cachedAt
              /\ mockData' = mockData
       /\ lastKnownData' = LastDecoded(dataOut')
       /\ \A i \in NewSensorRecords : FromBase(dataOut'[i].rec, LastDecoded(dataOut))]_vars

\* a frame decoded, the next one failed, and a location fix then yielded a record
C37_Witness ==
    \E i, j, k \in DOMAIN dataOut :
        /\ i < j /\ j < k
        /\ i \in Decoded(dataOut)
        /\ dataOut[j].src = "ble" /\ Sentinel(dataOut[j].rec)
        /\ dataOut[k].src = "gps"
        /\ dataOut[k].rec.gear = dataOut[i].rec.gear


\* ------------------------------------------------------ tracked speed
\* C38: every location update SensorManager.startGPSTracking delivers carries an
\* integer speed within [0, 300] km/h: 0 for the first fix, 0 in place of an
\* estimate outside [0, 300], also when two fixes carry the same time.
C38_TrackedSpeedInRange ==
    \A i \in DOMAIN locationOut :
        LET speed == locationOut[i].speed
        IN /\ speed.cls = "finite"
           /\ speed.den = 1
           /\ speed.num \in 0..300
           /\ locationOut[i].first => speed.num = 0

====
